---- MODULE Spec2Model ----
(***************************************************************************)
(* Pipeline-parallel forward passes of the T5 family                       *)
(* (colossalai/shardformer/modeling/t5.py) and the MetaTensor wrapper       *)
(* (colossalai/fx/profiler/tensor.py).                                     *)
(*                                                                         *)
(* Every Python value is a record with a field "tag".  A tensor is known   *)
(* by the operations that produced it ("hist"); a call's outcome is either *)
(* a returned value or a raised exception, together with the ordered list  *)
(* of the collaborator invocations (embedding, dropout, device selection,  *)
(* block, layer norm, lm head, loss) the call made before it ended.        *)
(***************************************************************************)
EXTENDS Integers, Sequences, FiniteSets, TLC

\* Number of pipeline stages of a run (stage_manager.num_stages).
NumStages == 3
\* Number of transformer blocks held by one T5Stack (len(self.block)).
NumBlocks == 2

VARIABLES
    call,      \* the entry point last called and its arguments
    result,    \* what that call returned or raised, and the events it caused
    pipe,      \* the pipeline run in progress, if any
    heap,      \* the MetaTensor objects constructed so far, oldest first
    last,      \* the MetaTensor operation last performed
    frames     \* the calls of __torch_dispatch__ in progress

vars == <<call, result, pipe>>
tensor_vars == <<heap, last, frames>>
all_vars == <<call, result, pipe, heap, last, frames>>

----------------------------------------------------------------------------
(* Python values *)

None == [tag |-> "None"]
PyTrue == [tag |-> "bool", v |-> TRUE]
PyFalse == [tag |-> "bool", v |-> FALSE]
PyBool(b) == IF b THEN PyTrue ELSE PyFalse
PyTuple(items) == [tag |-> "tuple", items |-> items]

IsNone(x) == x.tag = "None"

\* Python truthiness, as the `if x:` tests of the source evaluate it.
Truthy(x) ==
    CASE x.tag = "None" -> FALSE
      [] x.tag = "bool" -> x.v
      [] x.tag = "tuple" -> Len(x.items) > 0
      [] OTHER -> TRUE

\* A tensor that is an input of the run.
Tensor(name) == [tag |-> "Tensor", hist |-> <<[op |-> name, i |-> -1]>>]
\* The tensor a collaborator `op` (of block `i`, or -1) computes from `t`.
Apply(t, op, i) == [tag |-> "Tensor", hist |-> Append(t.hist, [op |-> op, i |-> i])]

\* x[k] for a Python tuple or a ModelOutput (0-based; a ModelOutput indexes
\* the tuple of its non-None fields).
ToTuple(x) ==
    CASE x.tag = "tuple" -> x.items
      [] x.tag = "BaseModelOutput" ->
            SelectSeq(<<x.last_hidden_state, x.hidden_states, x.attentions>>,
                      LAMBDA v : ~IsNone(v))
      [] x.tag = "BaseModelOutputWithPastAndCrossAttentions" ->
            SelectSeq(<<x.last_hidden_state, x.past_key_values, x.hidden_states,
                        x.attentions, x.cross_attentions>>,
                      LAMBDA v : ~IsNone(v))
PyLen(x) == Len(ToTuple(x))
Item(x, k) == ToTuple(x)[k + 1]

\* Outcomes of a call.
Raise(exc, msg, events) == [status |-> "raise", exc |-> exc, msg |-> msg, events |-> events]
Return(value, events) == [status |-> "return", value |-> value, events |-> events]

----------------------------------------------------------------------------
(* T5PipelineForwards.t5_stack_forward *)

\* `if past_key_values: past_key_values = None`
NormalizePastKeyValues(past_key_values) ==
    IF Truthy(past_key_values) THEN None ELSE past_key_values

\* A flag handed on as it came.
KeepFlag(flag) == flag

\* `if flag: flag = False`: a flag that is on is switched off, any other
\* value (False, None) is kept as it came.
SuppressFlag(flag) == IF Truthy(flag) THEN PyFalse ELSE flag

\* The alignment with the threshold stage counted as an encoder stage.
AlignedAfterThreshold(in_decoder, stage, decoder_starting_stage) ==
    in_decoder = (stage > decoder_starting_stage)

\* `in_decoder != (stage >= decoder_starting_stage)` is the misalignment.
Aligned(in_decoder, stage, decoder_starting_stage) ==
    in_decoder = (stage >= decoder_starting_stage)

\* Every decoder stage taken for a first stage.
AtFirstOrDecoderStage(stage, decoder_starting_stage) ==
    (stage = 0) \/ (stage >= decoder_starting_stage)

AtFirstStage(stage, decoder_starting_stage) ==
    (stage = 0) \/ (stage = decoder_starting_stage)

\* Only the last stage of the pipeline taken for a last stage.
AtLastPipelineStage(stage, decoder_starting_stage, num_stages) ==
    stage = num_stages - 1

AtLastStage(stage, decoder_starting_stage, num_stages) ==
    (stage = decoder_starting_stage - 1) \/ (stage = num_stages - 1)

\* The input check without the exclusion of both inputs.
FirstStageInputCheckLenient(input_ids, inputs_embeds, has_embed_tokens) ==
    IF IsNone(input_ids) /\ IsNone(inputs_embeds) THEN "no_inputs"
    ELSE IF IsNone(inputs_embeds) /\ ~has_embed_tokens THEN "no_embed_tokens"
    ELSE "ok"

\* The first-stage input check: the message of the ValueError, or "ok".
FirstStageInputCheck(input_ids, inputs_embeds, has_embed_tokens) ==
    IF ~IsNone(input_ids) /\ ~IsNone(inputs_embeds) THEN "both_inputs"
    ELSE IF IsNone(input_ids) /\ IsNone(inputs_embeds) THEN "no_inputs"
    ELSE IF IsNone(inputs_embeds) /\ ~has_embed_tokens THEN "no_embed_tokens"
    ELSE "ok"

\* The check of a stage that is not the first one of its sub-model.
LaterStageInputCheck(hidden_states) ==
    IF IsNone(hidden_states) THEN "hidden_states_none" ELSE "ok"

\* "Process inputs if at the first stage of encoder/decoder."
ProcessInputs(self, a, at_first_stage) ==
    IF at_first_stage
    THEN LET chk == FirstStageInputCheck(a.input_ids, a.inputs_embeds, self.embed_tokens)
             viaTable == IsNone(a.inputs_embeds)
             inputs_embeds == IF viaTable THEN Apply(a.input_ids, "embed_tokens", -1)
                              ELSE a.inputs_embeds
         IN IF chk # "ok" THEN Raise("ValueError", chk, <<>>)
            ELSE [status |-> "ok",
                  hidden_states |-> Apply(inputs_embeds, "dropout", -1),
                  events |-> (IF viaTable THEN <<[ev |-> "embed_tokens"]>> ELSE <<>>)
                             \o <<[ev |-> "dropout"]>>]
    ELSE LET chk == LaterStageInputCheck(a.hidden_states)
         IN IF chk # "ok" THEN Raise("ValueError", chk, <<>>)
            ELSE [status |-> "ok", hidden_states |-> a.hidden_states, events |-> <<>>]

\* head_mask[i] after get_head_mask: None per layer when no mask was given.
LayerMask(mask, i) == IF IsNone(mask) THEN None ELSE Apply(mask, "layer", i)

\* The masks every block of the call receives.
PrepareMasks(self, a) ==
    LET in_decoder == self.is_decoder
        attention_mask == IF IsNone(a.attention_mask) THEN Tensor("ones")
                          ELSE a.attention_mask
        encoder_attention_mask ==
            IF in_decoder /\ IsNone(a.encoder_attention_mask)
                          /\ ~IsNone(a.encoder_hidden_states)
            THEN Tensor("ones_long") ELSE a.encoder_attention_mask
    IN [extended_attention_mask |->
            Apply(attention_mask, "get_extended_attention_mask", -1),
        encoder_extended_attention_mask |->
            IF self.is_decoder /\ ~IsNone(a.encoder_hidden_states)
            THEN Apply(encoder_attention_mask, "invert_attention_mask", -1)
            ELSE None]

\* The transformer block (transformers' T5Block), by the layout of its
\* output tuple: hidden-states, [key-value-states], self-attention position
\* bias, [self-attention weights], [cross-attention position bias],
\* [cross-attention weights].  A bias that comes in is handed back; a bias
\* that comes in as None is computed by this block.
T5Block(is_decoder, inv) ==
    LET do_cross == is_decoder /\ ~IsNone(inv.encoder_hidden_states)
        hidden == Apply(inv.hidden_states, "block", inv.i)
        pb == IF IsNone(inv.position_bias)
              THEN [tag |-> "Tensor", hist |-> <<[op |-> "compute_bias", i |-> inv.i]>>]
              ELSE inv.position_bias
        edpb == IF IsNone(inv.encoder_decoder_position_bias)
                THEN [tag |-> "Tensor", hist |-> <<[op |-> "compute_cross_bias", i |-> inv.i]>>]
                ELSE inv.encoder_decoder_position_bias
        oa == Truthy(inv.output_attentions)
    IN <<hidden>>
       \o (IF Truthy(inv.use_cache) THEN <<Tensor("present_key_value")>> ELSE <<>>)
       \o <<pb>>
       \o (IF oa THEN <<Tensor("self_attention_weights")>> ELSE <<>>)
       \o (IF do_cross THEN <<edpb>> ELSE <<>>)
       \o (IF do_cross /\ oa THEN <<Tensor("cross_attention_weights")>> ELSE <<>>)

\* The range with its end included.
BlockRangeInclusive(start_idx, end_idx) ==
    [k \in 1..(IF end_idx >= start_idx THEN end_idx - start_idx + 1 ELSE 0) |-> start_idx + k - 1]

\* `for i in range(start_idx, end_idx)`: the indices visited, in order.
BlockRange(start_idx, end_idx) ==
    [k \in 1..(IF end_idx > start_idx THEN end_idx - start_idx ELSE 0) |-> start_idx + k - 1]

\* On the checkpointing path the block called with the inputs of checkpoint
\* alone, use_cache and output_attentions left at their defaults.
BlockInvocationInputsOnly(ctx, i, st) ==
    [ev |-> "block", i |-> i,
     path |-> IF ctx.checkpointing THEN "checkpoint" ELSE "direct",
     hidden_states |-> st.hidden_states,
     attention_mask |-> ctx.extended_attention_mask,
     position_bias |-> st.position_bias,
     encoder_hidden_states |-> ctx.encoder_hidden_states,
     encoder_attention_mask |-> ctx.encoder_extended_attention_mask,
     encoder_decoder_position_bias |-> st.encoder_decoder_position_bias,
     layer_head_mask |-> LayerMask(ctx.head_mask, i),
     cross_attn_layer_head_mask |-> LayerMask(ctx.cross_attn_head_mask, i),
     past_key_value |-> None,
     use_cache |-> IF ctx.checkpointing THEN None ELSE ctx.use_cache,
     output_attentions |-> IF ctx.checkpointing THEN None ELSE ctx.output_attentions]

\* The arguments block i is invoked with, on the checkpointing path
\* (positional, past_key_value always None) and on the direct path.
BlockInvocation(ctx, i, st) ==
    [ev |-> "block", i |-> i,
     path |-> IF ctx.checkpointing THEN "checkpoint" ELSE "direct",
     hidden_states |-> st.hidden_states,
     attention_mask |-> ctx.extended_attention_mask,
     position_bias |-> st.position_bias,
     encoder_hidden_states |-> ctx.encoder_hidden_states,
     encoder_attention_mask |-> ctx.encoder_extended_attention_mask,
     encoder_decoder_position_bias |-> st.encoder_decoder_position_bias,
     layer_head_mask |-> LayerMask(ctx.head_mask, i),
     cross_attn_layer_head_mask |-> LayerMask(ctx.cross_attn_head_mask, i),
     past_key_value |-> None,
     use_cache |-> ctx.use_cache,
     output_attentions |-> ctx.output_attentions]

\* `if use_cache is False or use_cache is None:` a None is put in the slot of
\* the key-value state.
PadLayerOutputs(layer_outputs, use_cache) ==
    IF use_cache = PyFalse \/ IsNone(use_cache)
    THEN <<layer_outputs[1], None>> \o Tail(layer_outputs)
    ELSE layer_outputs

\* The bias read one slot early, from the slot of the key-value state.
PositionBiasFromSlot1(layer_outputs) == layer_outputs[2]

\* `position_bias = layer_outputs[2]`
NextPositionBias(layer_outputs) == layer_outputs[3]

\* The cross-attention bias taken from the block's output in every stack,
\* from the slot after the key-value state.
NextCrossBiasUnconditional(ctx, layer_outputs, old) == layer_outputs[3]

\* `if in_decoder and encoder_hidden_states is not None:
\*      encoder_decoder_position_bias = layer_outputs[4 if output_attentions else 3]`
NextCrossBias(ctx, layer_outputs, old) ==
    IF ctx.in_decoder /\ ~IsNone(ctx.encoder_hidden_states)
    THEN layer_outputs[IF Truthy(ctx.output_attentions) THEN 5 ELSE 4]
    ELSE old

\* The block invoked first and the device selected after it.
BlockThenSetDevice(i, st, inv) ==
    <<inv, [ev |-> "set_device", i |-> i, of |-> st.hidden_states]>>

\* `torch.cuda.set_device(hidden_states.device)` and then the invocation of
\* the block, through checkpoint or directly.
SetDeviceThenBlock(i, st, inv) ==
    <<[ev |-> "set_device", i |-> i, of |-> st.hidden_states], inv>>

\* What one iteration leaves behind, given the invocation it made and the
\* (padded) tuple the block returned.
AfterBlock(ctx, i, st, inv, layer_outputs) ==
    [status |-> "ok",
     hidden_states |-> layer_outputs[1],
     position_bias |-> NextPositionBias(layer_outputs),
     encoder_decoder_position_bias |->
         NextCrossBias(ctx, layer_outputs, st.encoder_decoder_position_bias),
     events |-> st.events \o SetDeviceThenBlock(i, st, inv)]

\* The block is invoked and its output tuple padded.
InvokeBlock(ctx, i, st, inv) ==
    AfterBlock(ctx, i, st, inv,
               PadLayerOutputs(T5Block(ctx.in_decoder, inv), ctx.use_cache))

\* One iteration of the loop over the held blocks; indexing past the held
\* blocks raises IndexError before anything else is done.
BlockStep(ctx, i, st) ==
    IF i >= NumBlocks
    THEN [st EXCEPT !.status = "raise"]
    ELSE InvokeBlock(ctx, i, st, BlockInvocation(ctx, i, st))

RECURSIVE RunBlocks(_, _, _)
\* "Going through held blocks."
RunBlocks(ctx, idxs, st) ==
    IF idxs = <<>> \/ st.status = "raise" THEN st
    ELSE RunBlocks(ctx, Tail(idxs), BlockStep(ctx, Head(idxs), st))

\* "last layer": the full output of the sub-model at its last stage, the
\* bundle for the next stage otherwise.
StackOutput(self, a, at_last_stage, flags, st) ==
    IF at_last_stage
    THEN LET hidden_states ==
                 Apply(Apply(st.hidden_states, "final_layer_norm", -1), "dropout", -1)
             events == st.events \o <<[ev |-> "final_layer_norm"], [ev |-> "dropout"]>>
             present_key_value_states ==
                 IF Truthy(flags.use_cache) THEN PyTuple(<<>>) ELSE None
             all_hidden_states ==
                 IF Truthy(flags.output_hidden_states) THEN PyTuple(<<>>) ELSE None
             all_attentions ==
                 IF Truthy(flags.output_attentions) THEN PyTuple(<<>>) ELSE None
             all_cross_attentions ==
                 IF Truthy(flags.output_attentions) /\ self.is_decoder
                 THEN PyTuple(<<>>) ELSE None
         IN IF ~Truthy(a.return_dict)
            THEN Return(PyTuple(SelectSeq(<<hidden_states, present_key_value_states,
                                           all_hidden_states, all_attentions,
                                           all_cross_attentions>>,
                                         LAMBDA v : ~IsNone(v))), events)
            ELSE Return([tag |-> "BaseModelOutputWithPastAndCrossAttentions",
                         last_hidden_state |-> hidden_states,
                         past_key_values |-> present_key_value_states,
                         hidden_states |-> all_hidden_states,
                         attentions |-> all_attentions,
                         cross_attentions |-> all_cross_attentions], events)
    ELSE Return([tag |-> "dict",
                 hidden_states |-> st.hidden_states,
                 position_bias |-> st.position_bias,
                 encoder_decoder_position_bias |-> st.encoder_decoder_position_bias],
                st.events)

\* What every block of the call is invoked with, whatever the block.
BlockContext(self, a, flags, masks) ==
    [in_decoder |-> self.is_decoder,
     checkpointing |-> self.gradient_checkpointing /\ self.training,
     encoder_hidden_states |-> a.encoder_hidden_states,
     extended_attention_mask |-> masks.extended_attention_mask,
     encoder_extended_attention_mask |-> masks.encoder_extended_attention_mask,
     head_mask |-> a.head_mask,
     cross_attn_head_mask |-> a.cross_attn_head_mask,
     use_cache |-> flags.use_cache,
     output_attentions |-> flags.output_attentions]

\* A block index past the held blocks reported as a ValueError.
AfterBlocksValueError(self, a, flags, st) ==
    IF st.status = "raise"
    THEN Raise("ValueError", "block", st.events)
    ELSE StackOutput(self, a,
                     AtLastStage(a.stage_manager.stage, a.decoder_starting_stage,
                                 a.stage_manager.num_stages),
                     flags, st)

\* The end of the call, given what the loop left behind.
AfterBlocks(self, a, flags, st) ==
    IF st.status = "raise"
    THEN Raise("IndexError", "block", st.events)
    ELSE StackOutput(self, a,
                     AtLastStage(a.stage_manager.stage, a.decoder_starting_stage,
                                 a.stage_manager.num_stages),
                     flags, st)

\* The call from the processed inputs on: the mask length (which indexes
\* past_key_values unless it is None), the masks, the loop and the output.
AfterInputs(self, a, flags, past_key_values, inp) ==
    IF inp.status = "raise" THEN inp
    ELSE IF ~IsNone(past_key_values)
    THEN Raise("IndexError", "past_key_values", inp.events)
    ELSE AfterBlocks(self, a, flags,
             RunBlocks(BlockContext(self, a, flags, PrepareMasks(self, a)),
                       BlockRange(a.stage_index[1], a.stage_index[2]),
                       [status |-> "ok",
                        hidden_states |-> inp.hidden_states,
                        position_bias |-> a.position_bias,
                        encoder_decoder_position_bias |-> a.encoder_decoder_position_bias,
                        events |-> inp.events]))

\* The switched-off feature flags of a call.
SuppressFlags(a) ==
    [output_attentions |-> SuppressFlag(a.output_attentions),
     output_hidden_states |-> SuppressFlag(a.output_hidden_states),
     use_cache |-> SuppressFlag(a.use_cache)]

\* The call from the feature flags on.  `if use_cache is True:` reads
\* in_decoder before it is assigned; a call without a stage manager fails at
\* `stage_manager.stage`.
AfterFlags(self, a, flags) ==
    IF flags.use_cache = PyTrue
    THEN Raise("UnboundLocalError", "in_decoder", <<>>)
    ELSE IF IsNone(a.stage_manager)
    THEN Raise("AttributeError", "stage_manager", <<>>)
    ELSE IF ~Aligned(self.is_decoder, a.stage_manager.stage, a.decoder_starting_stage)
    THEN Raise("ValueError", "not_aligned", <<>>)
    ELSE AfterInputs(self, a, flags, NormalizePastKeyValues(a.past_key_values),
                     ProcessInputs(self, a,
                         AtFirstStage(a.stage_manager.stage, a.decoder_starting_stage)))

\* t5_stack_forward(self, **a)
T5StackForward(self, a) == AfterFlags(self, a, SuppressFlags(a))

----------------------------------------------------------------------------
(* The entry points that route a call to the encoder or the decoder stack *)

\* The keyword arguments of t5_stack_forward at their default values.
StackDefaults ==
    [input_ids |-> None, attention_mask |-> None, encoder_hidden_states |-> None,
     encoder_attention_mask |-> None, inputs_embeds |-> None, head_mask |-> None,
     cross_attn_head_mask |-> None, past_key_values |-> None, use_cache |-> PyFalse,
     output_attentions |-> PyFalse, output_hidden_states |-> PyFalse,
     return_dict |-> None, stage_manager |-> None, hidden_states |-> None,
     position_bias |-> None, encoder_decoder_position_bias |-> None,
     stage_index |-> None, decoder_starting_stage |-> None]

\* A call with keyword arguments `given`, the others at their defaults.
With(defaults, given) ==
    [k \in DOMAIN defaults |-> IF k \in DOMAIN given THEN given[k] ELSE defaults[k]]

\* PipelineStageManager.is_last_stage()
IsLastStage(stage_manager) == stage_manager.stage = stage_manager.num_stages - 1

\* `x = x if x is not None else config.x`
OrConfig(x, config_value) == IF IsNone(x) THEN PyBool(config_value) ELSE x

\* "head_mask was separated into two input args - head_mask, decoder_head_mask"
DecoderHeadMask(self, a) ==
    IF ~IsNone(a.head_mask) /\ IsNone(a.decoder_head_mask)
       /\ self.config.num_layers = self.config.num_decoder_layers
    THEN a.head_mask ELSE a.decoder_head_mask

\* `in_decoder = stage_manager.stage >= decoder_starting_stage`
InDecoder(stage, decoder_starting_stage) == stage >= decoder_starting_stage

\* The hand-over placed on the threshold stage itself.
IsThresholdStage(stage, decoder_starting_stage) == stage = decoder_starting_stage

\* `if stage_manager.stage == decoder_starting_stage - 1:  # last stage of encoder`
IsLastEncoderStage(stage, decoder_starting_stage) == stage = decoder_starting_stage - 1

\* The arguments the encoder stack is called with.
EncoderStackArgs(a, n) ==
    With(StackDefaults,
         [input_ids |-> a.input_ids, attention_mask |-> a.attention_mask,
          inputs_embeds |-> a.inputs_embeds, head_mask |-> a.head_mask,
          output_attentions |-> n.output_attentions,
          output_hidden_states |-> n.output_hidden_states,
          return_dict |-> n.return_dict, stage_manager |-> a.stage_manager,
          hidden_states |-> a.hidden_states, position_bias |-> a.position_bias,
          encoder_decoder_position_bias |-> a.encoder_decoder_position_bias,
          stage_index |-> a.stage_index,
          decoder_starting_stage |-> a.decoder_starting_stage])

\* The arguments the decoder stack is called with.
DecoderStackArgs(a, n, encoder_hidden_states) ==
    With(StackDefaults,
         [input_ids |-> a.decoder_input_ids, attention_mask |-> a.decoder_attention_mask,
          inputs_embeds |-> a.decoder_inputs_embeds,
          past_key_values |-> n.past_key_values,
          encoder_hidden_states |-> encoder_hidden_states,
          encoder_attention_mask |-> a.attention_mask,
          head_mask |-> n.decoder_head_mask,
          cross_attn_head_mask |-> a.cross_attn_head_mask,
          use_cache |-> n.use_cache, output_attentions |-> n.output_attentions,
          output_hidden_states |-> n.output_hidden_states,
          return_dict |-> n.return_dict,
          hidden_states |-> a.hidden_states, position_bias |-> a.position_bias,
          encoder_decoder_position_bias |-> a.encoder_decoder_position_bias,
          stage_index |-> a.stage_index,
          decoder_starting_stage |-> a.decoder_starting_stage])

\* What both routing entry points do before they look at the stage.
RouterPrologue(self, a) ==
    [use_cache |-> SuppressFlag(OrConfig(a.use_cache, self.config.use_cache)),
     return_dict |-> OrConfig(a.return_dict, self.config.use_return_dict),
     past_key_values |-> NormalizePastKeyValues(a.past_key_values),
     output_attentions |-> SuppressFlag(a.output_attentions),
     output_hidden_states |-> SuppressFlag(a.output_hidden_states),
     decoder_head_mask |-> DecoderHeadMask(self, a)]

\* "last stage of encoder": the stack's output is packed under the key
\* encoder_outputs; at any other stage it is returned as it is.
EncoderHandOver(a, encoder_outputs) ==
    IF encoder_outputs.status = "raise" THEN encoder_outputs
    ELSE IF IsLastEncoderStage(a.stage_manager.stage, a.decoder_starting_stage)
    THEN Return([tag |-> "dict", encoder_outputs |-> encoder_outputs.value],
                encoder_outputs.events)
    ELSE encoder_outputs

\* "Stage is in encoder, directly return the output of t5_stack_forward"
EncoderRoute(self, a, n) ==
    EncoderHandOver(a, T5StackForward(self.encoder, EncoderStackArgs(a, n)))

\* `if return_dict and not isinstance(encoder_outputs, BaseModelOutput)`
WrapEncoderOutputs(encoder_outputs, return_dict) ==
    IF Truthy(return_dict) /\ encoder_outputs.tag # "BaseModelOutput"
    THEN [tag |-> "BaseModelOutput",
          last_hidden_state |-> Item(encoder_outputs, 0),
          hidden_states |-> IF PyLen(encoder_outputs) > 1
                            THEN Item(encoder_outputs, 1) ELSE None,
          attentions |-> IF PyLen(encoder_outputs) > 2
                         THEN Item(encoder_outputs, 2) ELSE None]
    ELSE encoder_outputs

\* The checks a decoder stage makes before it calls the decoder stack: the
\* message of the ValueError, or "ok".
DecoderStageCheck(a) ==
    IF IsNone(a.encoder_outputs) THEN "encoder_outputs_none"
    ELSE IF a.stage_manager.stage # a.decoder_starting_stage /\ IsNone(a.hidden_states)
    THEN "decoder_hidden_states_none"
    ELSE "ok"

\* `decoder_outputs['encoder_outputs'] = encoder_outputs; return decoder_outputs`
PassEncoderOutputs(decoder_outputs, encoder_outputs) ==
    IF decoder_outputs.value.tag = "tuple"
    THEN Raise("TypeError", "item_assignment", decoder_outputs.events)
    ELSE Return([k \in DOMAIN decoder_outputs.value \cup {"encoder_outputs"} |->
                    IF k = "encoder_outputs" THEN encoder_outputs
                    ELSE decoder_outputs.value[k]],
                decoder_outputs.events)

\* "Directly return outputs of overloaded T5Stack forward if not at last
\* stage": "raise", "bundle" (not the last stage) or "last".
DecoderHandOver(a, decoder_outputs, encoder_outputs) ==
    IF decoder_outputs.status = "raise"
    THEN [kind |-> "raise", out |-> decoder_outputs]
    ELSE IF ~IsLastStage(a.stage_manager)
    THEN [kind |-> "bundle", out |-> PassEncoderOutputs(decoder_outputs, encoder_outputs)]
    ELSE [kind |-> "last", out |-> decoder_outputs, encoder_outputs |-> encoder_outputs]

\* The decoder route without the checks of its inputs.
DecoderRouteUnchecked(self, a, n) ==
    DecoderHandOver(a,
        T5StackForward(self.decoder,
                       DecoderStackArgs(a, n, IF IsNone(a.encoder_outputs) THEN None
                                              ELSE Item(a.encoder_outputs, 0))),
        a.encoder_outputs)

\* The decoder stages up to the hand-over of the decoder stack's output.
DecoderRoute(self, a, n) ==
    IF DecoderStageCheck(a) # "ok"
    THEN [kind |-> "raise", out |-> Raise("ValueError", DecoderStageCheck(a), <<>>)]
    ELSE DecoderHandOver(a,
             T5StackForward(self.decoder,
                            DecoderStackArgs(a, n, Item(a.encoder_outputs, 0))),
             WrapEncoderOutputs(a.encoder_outputs, n.return_dict))

\* The Seq2SeqModelOutput (or tuple) of the last decoder stage of T5Model.
ModelOutput(d, return_dict) ==
    LET dec == d.out.value
        enc == d.encoder_outputs
    IN  IF ~Truthy(return_dict)
        THEN IF dec.tag = "tuple" /\ enc.tag = "tuple"
             THEN Return(PyTuple(dec.items \o enc.items), d.out.events)
             ELSE Raise("TypeError", "concatenate", d.out.events)
        ELSE IF dec.tag # "BaseModelOutputWithPastAndCrossAttentions"
        THEN Raise("AttributeError", "last_hidden_state", d.out.events)
        ELSE Return([tag |-> "Seq2SeqModelOutput",
                     last_hidden_state |-> dec.last_hidden_state,
                     past_key_values |-> dec.past_key_values,
                     decoder_hidden_states |-> dec.hidden_states,
                     decoder_attentions |-> dec.attentions,
                     cross_attentions |-> dec.cross_attentions,
                     encoder_last_hidden_state |-> enc.last_hidden_state,
                     encoder_hidden_states |-> enc.hidden_states,
                     encoder_attentions |-> enc.attentions], d.out.events)

\* The last step of t5_model_forward at a decoder stage.
ModelTail(d, n) == IF d.kind # "last" THEN d.out ELSE ModelOutput(d, n.return_dict)

\* t5_model_forward from the normalised inputs on.
ModelRoute(self, a, n) ==
    IF IsNone(a.stage_manager)
    THEN Raise("AttributeError", "stage_manager", <<>>)
    ELSE IF ~InDecoder(a.stage_manager.stage, a.decoder_starting_stage)
    THEN EncoderRoute(self, a, n)
    ELSE ModelTail(DecoderRoute(self, a, n), n)

\* t5_model_forward(self, **a)
T5ModelForward(self, a) == ModelRoute(self, a, RouterPrologue(self, a))

\* `lm_logits = self.lm_head(sequence_output)`, rescaled first when the word
\* embeddings are tied.
LMLogits(self, sequence_output) ==
    Apply(IF self.config.tie_word_embeddings
          THEN Apply(sequence_output, "rescale", -1) ELSE sequence_output,
          "lm_head", -1)

\* `loss = None; if labels is not None: loss = loss_fct(lm_logits, labels)`
LMLoss(labels, lm_logits) ==
    IF IsNone(labels) THEN None
    ELSE [tag |-> "Tensor",
          hist |-> Append(lm_logits.hist, [op |-> "cross_entropy", i |-> -1])]

\* The Seq2SeqLMOutput (or tuple) of the last decoder stage.
LMReturn(dec, enc, lm_logits, loss, return_dict, events) ==
    IF ~Truthy(return_dict)
    THEN IF enc.tag # "tuple"
         THEN Raise("TypeError", "concatenate", events)
         ELSE Return(PyTuple((IF IsNone(loss) THEN <<>> ELSE <<loss>>)
                             \o <<lm_logits>> \o Tail(ToTuple(dec)) \o enc.items),
                     events)
    ELSE Return([tag |-> "Seq2SeqLMOutput",
                 loss |-> loss,
                 logits |-> lm_logits,
                 past_key_values |-> dec.past_key_values,
                 decoder_hidden_states |-> dec.hidden_states,
                 decoder_attentions |-> dec.attentions,
                 cross_attentions |-> dec.cross_attentions,
                 encoder_last_hidden_state |-> enc.last_hidden_state,
                 encoder_hidden_states |-> enc.hidden_states,
                 encoder_attentions |-> enc.attentions], events)

\* The head of T5ForConditionalGeneration on the logits.
LMHead(a, d, lm_logits, return_dict) ==
    LMReturn(d.out.value, d.encoder_outputs, lm_logits, LMLoss(a.labels, lm_logits),
             return_dict,
             d.out.events \o <<[ev |-> "lm_head"]>>
                 \o (IF IsNone(a.labels) THEN <<>> ELSE <<[ev |-> "cross_entropy"]>>))

\* The logits, the loss and the output of the last decoder stage of
\* T5ForConditionalGeneration.
LMOutput(self, a, d, return_dict) ==
    IF d.out.value.tag = "dict"
    THEN Raise("KeyError", "0", d.out.events)
    ELSE LMHead(a, d, LMLogits(self, Item(d.out.value, 0)), return_dict)

\* The last step of t5_for_conditional_generation_forward at a decoder stage.
LMTail(self, a, d, n) ==
    IF d.kind # "last" THEN d.out ELSE LMOutput(self, a, d, n.return_dict)

\* t5_for_conditional_generation_forward from the normalised inputs on.
LMRoute(self, a, n) ==
    IF IsNone(a.stage_manager)
    THEN Raise("AttributeError", "stage_manager", <<>>)
    ELSE IF ~InDecoder(a.stage_manager.stage, a.decoder_starting_stage)
    THEN EncoderRoute(self, a, n)
    ELSE LMTail(self, a, DecoderRoute(self, a, n), n)

\* t5_for_conditional_generation_forward(self, **a)
T5ForConditionalGenerationForward(self, a) == LMRoute(self, a, RouterPrologue(self, a))

\* t5_encoder_model_forward(self, **a)
T5EncoderModelForward(self, a) ==
    T5StackForward(self.encoder,
        With(StackDefaults,
             [input_ids |-> a.input_ids, attention_mask |-> a.attention_mask,
              inputs_embeds |-> a.inputs_embeds, head_mask |-> a.head_mask,
              output_attentions |-> a.output_attentions,
              output_hidden_states |-> a.output_hidden_states,
              return_dict |-> OrConfig(a.return_dict, self.config.use_return_dict),
              stage_manager |-> a.stage_manager,
              hidden_states |-> a.hidden_states, position_bias |-> a.position_bias,
              encoder_decoder_position_bias |-> a.encoder_decoder_position_bias,
              stage_index |-> a.stage_index,
              decoder_starting_stage |-> a.decoder_starting_stage]))

----------------------------------------------------------------------------
(* MetaTensor (colossalai/fx/profiler/tensor.py) *)

\* A torch.device, a device given by its name, a dtype, and a value that is
\* no tensor.
Device(type, index) == [tag |-> "device", type |-> type, index |-> index]
Str(s) == [tag |-> "str", s |-> s]
Dtype(name) == [tag |-> "dtype", name |-> name]
PyInt(v) == [tag |-> "int", v |-> v]

\* torch.device('meta')
Meta == Device("meta", -1)

\* torch.device(name): the type and the index the name spells (-1: none).
ParseDevice(s) ==
    CASE s = "cpu" -> Device("cpu", -1)
      [] s = "meta" -> Device("meta", -1)
      [] s = "vulkan" -> Device("vulkan", -1)
      [] s = "cuda:0" -> Device("cuda", 0)
      [] s = "cuda:1" -> Device("cuda", 1)

\* The device a `device=` argument denotes, given as a name or as an object.
TorchDevice(x) == IF x.tag = "str" THEN ParseDevice(x.s) ELSE x

\* A plain torch.Tensor: where its storage is, its dtype, its content, and
\* what size(), stride(), storage_offset(), layout and requires_grad give; as
\* made by a factory it is a contiguous matrix that starts its storage.
PlainTensor(device, dtype, data) ==
    [tag |-> "torch.Tensor", device |-> device, dtype |-> dtype, data |-> data,
     shape |-> <<2, 3>>, stride |-> <<3, 1>>, storage_offset |-> 0,
     layout |-> "torch.strided", requires_grad |-> FALSE]

\* A view of a tensor: the same content seen with another shape and stride
\* from another offset.
View(x, shape, stride, storage_offset) ==
    [x EXCEPT !.shape = shape, !.stride = stride, !.storage_offset = storage_offset]

\* The strides of a contiguous tensor of the shape.
RECURSIVE Contiguous(_)
Contiguous(shape) ==
    IF shape = <<>> THEN <<>>
    ELSE LET rest == Contiguous(Tail(shape))
         IN IF rest = <<>> THEN <<1>>
            ELSE <<rest[1] * shape[2]>> \o rest

\* The elements of the tensor fill a block of memory without gaps and
\* without overlap, in the order of some permutation of its dimensions.
NonOverlappingAndDense(x) ==
    \/ Len(x.shape) = 1 /\ (x.shape[1] <= 1 \/ x.stride[1] = 1)
    \/ Len(x.shape) = 2 /\ x.stride = <<x.shape[2], 1>>
    \/ Len(x.shape) = 2 /\ x.stride = <<1, x.shape[1]>>

\* `isinstance(x, MetaTensor)` and `isinstance(x, torch.Tensor)`.
IsMetaTensor(x) == x.tag = "MetaTensor"
IsTensor(x) == x.tag \in {"torch.Tensor", "MetaTensor"}

\* `x.is_meta`
IsMeta(x) == x.device.type = "meta"

\* `x.to(torch.device('meta'))` of a plain tensor: a new tensor on meta of
\* the same shape and dtype, with the strides of x when x is dense and
\* contiguous strides when it is not, at the start of storage of its own.
ToMeta(x) ==
    [x EXCEPT !.device = Meta,
              !.stride = IF NonOverlappingAndDense(x) THEN @ ELSE Contiguous(x.shape),
              !.storage_offset = 0]

\* The fake_device argument alone, nothing taken over from elem.
NewFakeDeviceAsGiven(elem, fake_device) == fake_device

\* __new__, "Avoid multiple wrapping": the fake_device and the elem in use
\* after line 26.
NewFakeDevice(elem, fake_device) ==
    IF IsMetaTensor(elem) /\ IsNone(fake_device) THEN elem.device ELSE fake_device
NewElem(elem) == IF IsMetaTensor(elem) THEN elem._tensor ELSE elem

\* `device=fake_device if fake_device is not None else elem.device`
WrapperDevice(elem, fake_device) ==
    IF ~IsNone(fake_device) THEN TorchDevice(fake_device) ELSE elem.device

\* The tensor retained where it is.
RetainedWhereItIs(elem) == elem

\* `r._tensor = elem`, moved to meta unless it is there already.
RetainedTensor(elem) == IF ~IsMeta(elem) THEN ToMeta(elem) ELSE elem

\* The wrapper made after the tensor was moved to meta, from what is
\* retained.
MakeWrapperOfRetained(elem, fake_device) ==
    [tag |-> "MetaTensor",
     device |-> WrapperDevice(elem, fake_device),
     dtype |-> RetainedTensor(elem).dtype,
     shape |-> RetainedTensor(elem).shape,
     stride |-> RetainedTensor(elem).stride,
     storage_offset |-> RetainedTensor(elem).storage_offset,
     layout |-> RetainedTensor(elem).layout,
     requires_grad |-> RetainedTensor(elem).requires_grad,
     _tensor |-> RetainedTensor(elem)]

\* _make_wrapper_subclass, with what elem gives for its size, strides,
\* storage offset, dtype, layout and requires_grad, and then the assignment
\* of _tensor.
MakeWrapper(elem, fake_device) ==
    [tag |-> "MetaTensor",
     device |-> WrapperDevice(elem, fake_device),
     dtype |-> elem.dtype,
     shape |-> elem.shape,
     stride |-> elem.stride,
     storage_offset |-> elem.storage_offset,
     layout |-> elem.layout,
     requires_grad |-> elem.requires_grad,
     _tensor |-> RetainedTensor(elem)]

\* MetaTensor.__new__(cls, elem, fake_device)
MetaTensorNew(elem, fake_device) ==
    MakeWrapper(NewElem(elem), NewFakeDevice(elem, fake_device))

\* tree_flatten: the leaves of a tree of tuples and lists, left to right.
RECURSIVE Flatten(_)
Flatten(x) ==
    IF x.tag # "tuple" THEN <<x>>
    ELSE IF x.items = <<>> THEN <<>>
    ELSE Flatten(Head(x.items)) \o Flatten(PyTuple(Tail(x.items)))

\* The keyword arguments are an ordered list of (key, value); `'k' in kwargs`,
\* `kwargs['k']`, `kwargs['k'] = v`, and the values in the order of the keys.
HasKey(kwargs, k) == \E n \in 1..Len(kwargs) : kwargs[n].key = k
Lookup(kwargs, k) == kwargs[CHOOSE n \in 1..Len(kwargs) : kwargs[n].key = k].value
Store(kwargs, k, v) ==
    [n \in 1..Len(kwargs) |-> IF kwargs[n].key = k THEN [key |-> k, value |-> v]
                              ELSE kwargs[n]]
Values(kwargs) == PyTuple([n \in 1..Len(kwargs) |-> kwargs[n].value])

\* unwrap, its return value: the tensor behind a MetaTensor, a plain tensor
\* moved to meta, anything else as it is.
Unwrap(x) ==
    IF IsMetaTensor(x) THEN x._tensor
    ELSE IF IsTensor(x) THEN ToMeta(x)
    ELSE x

\* Only a plain tensor leaves its device in fake_device.
UnwrapFakeDevicePlainOnly(x, fake_device) ==
    IF IsTensor(x) /\ ~IsMetaTensor(x) THEN x.device ELSE fake_device

\* unwrap, its effect on the enclosing fake_device: every tensor visited
\* overwrites it with its device.
UnwrapFakeDevice(x, fake_device) == IF IsTensor(x) THEN x.device ELSE fake_device

\* fake_device as the first tensor visited sets it.
FirstTensorDevice(leaves, fake_device) ==
    IF SelectSeq(leaves, IsTensor) = <<>> THEN fake_device
    ELSE SelectSeq(leaves, IsTensor)[1].device

\* fake_device after unwrap has visited the leaves, in order.
RECURSIVE VisitLeaves(_, _)
VisitLeaves(leaves, fake_device) ==
    IF leaves = <<>> THEN fake_device
    ELSE VisitLeaves(Tail(leaves), UnwrapFakeDevice(Head(leaves), fake_device))

\* tree_map(unwrap, tree), the tree it returns.
RECURSIVE UnwrapTree(_)
UnwrapTree(x) ==
    IF x.tag = "tuple"
    THEN PyTuple([n \in 1..Len(x.items) |-> UnwrapTree(x.items[n])])
    ELSE Unwrap(x)
UnwrapKwargs(kwargs) ==
    [n \in 1..Len(kwargs) |-> [key |-> kwargs[n].key, value |-> UnwrapTree(kwargs[n].value)]]

\* `if 'device' in kwargs:` the device asked for is taken as fake_device and
\* meta is put in its place.
DeviceKwarg(kwargs) == IF HasKey(kwargs, "device") THEN Lookup(kwargs, "device") ELSE None
MetaKwargs(kwargs) ==
    IF HasKey(kwargs, "device") THEN Store(kwargs, "device", Meta) ELSE kwargs

\* fake_device when func is called: set from the device keyword, then by the
\* tensors of args, then by the tensors of kwargs.
CapturedDevice(args, kwargs) ==
    VisitLeaves(Flatten(Values(MetaKwargs(kwargs))),
                VisitLeaves(Flatten(args), DeviceKwarg(kwargs)))

\* A tensor of the result wrapped without the captured fake_device.
WrapWithoutDevice(x, fake_device) ==
    IF IsTensor(x) THEN MetaTensorNew(IF ~IsMeta(x) THEN ToMeta(x) ELSE x, None) ELSE x

\* wrap: a tensor of the result is moved to meta if need be and wrapped with
\* the captured fake_device; anything else is handed back as it is.
Wrap(x, fake_device) ==
    IF IsTensor(x)
    THEN MetaTensorNew(IF ~IsMeta(x) THEN ToMeta(x) ELSE x, fake_device)
    ELSE x

\* tree_map(wrap, out)
RECURSIVE WrapTree(_, _)
WrapTree(x, fake_device) ==
    IF x.tag = "tuple"
    THEN PyTuple([n \in 1..Len(x.items) |-> WrapTree(x.items[n], fake_device)])
    ELSE Wrap(x, fake_device)

\* The tensor func computes from the arguments it is called with: the first
\* tensor among them (a fresh tensor on cpu when there is none), converted
\* to the dtype and created on the device the keywords ask for.
FuncTensor(leaves, kwargs) ==
    LET tensors == SelectSeq(leaves, IsTensor)
        base == IF tensors = <<>> THEN PlainTensor(Device("cpu", -1), Dtype("float32"), "new")
                ELSE tensors[1]
    IN [base EXCEPT
          !.dtype = IF HasKey(kwargs, "dtype") THEN Lookup(kwargs, "dtype") ELSE @,
          !.device = IF HasKey(kwargs, "device") THEN Lookup(kwargs, "device") ELSE @]

\* `out = func(*args, **kwargs)`: what the operation returns, by the shape
\* of its result: one tensor, a list of tensors, tensors and numbers in
\* nested tuples, or a number.
Func(func, args, kwargs) ==
    CASE func.returns = "tensor" ->
            FuncTensor(Flatten(args) \o Flatten(Values(kwargs)), kwargs)
      [] func.returns = "list" ->
            PyTuple(<<FuncTensor(Flatten(args) \o Flatten(Values(kwargs)), kwargs),
                      FuncTensor(Flatten(args) \o Flatten(Values(kwargs)), kwargs)>>)
      [] func.returns = "nested" ->
            PyTuple(<<FuncTensor(Flatten(args) \o Flatten(Values(kwargs)), kwargs),
                      PyTuple(<<PyInt(3),
                                FuncTensor(Flatten(args) \o Flatten(Values(kwargs)), kwargs)>>)>>)
      [] func.returns = "number" -> PyInt(Len(Flatten(args)))

\* What one call of __torch_dispatch__ did, given what func was called with
\* and the fake_device captured by then.
Dispatched(func, args, kwargs, called_args, called_kwargs, fake_device, out) ==
    [op |-> "Dispatch", func |-> func, args |-> args, kwargs |-> kwargs,
     called_args |-> called_args, called_kwargs |-> called_kwargs,
     fake_device |-> fake_device, out |-> out,
     result |-> WrapTree(out, fake_device)]

\* MetaTensor.__torch_dispatch__(cls, func, types, args, kwargs)
TorchDispatchCall(func, args, kwargs, called_args, called_kwargs) ==
    Dispatched(func, args, kwargs, called_args, called_kwargs,
               CapturedDevice(args, kwargs),
               Func(func, called_args, called_kwargs))
TorchDispatch(func, args, kwargs) ==
    TorchDispatchCall(func, args, kwargs,
                      UnwrapTree(args), UnwrapKwargs(MetaKwargs(kwargs)))

\* The conversion made on the tensor inside, its result wrapped anew.
SuperToInside(self, dtype) ==
    MetaTensorNew([self._tensor EXCEPT !.dtype = dtype], None)

\* `super().to(dtype, non_blocking, copy)`, torch.Tensor.to on a MetaTensor:
\* the tensor itself when it has the dtype already, else the conversion,
\* which is intercepted by __torch_dispatch__.
ToCopy == [name |-> "aten._to_copy", returns |-> "tensor"]
SuperTo(self, dtype) ==
    IF self.dtype = dtype THEN self
    ELSE TorchDispatch(ToCopy, PyTuple(<<self>>),
                       <<[key |-> "dtype", value |-> dtype]>>).result

\* deepcopy(result): a MetaTensor of its own with the same content.
DeepCopy(x) ==
    [tag |-> x.tag, device |-> x.device, dtype |-> x.dtype,
     shape |-> x.shape, stride |-> x.stride, storage_offset |-> x.storage_offset,
     layout |-> x.layout, requires_grad |-> x.requires_grad,
     _tensor |-> x._tensor]

\* The overload for a str without the conversion of the dtype.
ToStrSameDtype(self, device, dtype) == MetaTensorNew(DeepCopy(self), device)

\* The overloads of `to` registered for a str and for a torch.device.
ToStr(self, device, dtype) ==
    MetaTensorNew(DeepCopy(IF ~IsNone(dtype) THEN SuperTo(self, dtype) ELSE self), device)
ToDevice(self, device, dtype) ==
    MetaTensorNew(DeepCopy(IF ~IsNone(dtype) THEN SuperTo(self, dtype) ELSE self), device)

\* MetaTensor.to(self, target, dtype): singledispatchmethod picks the
\* overload by the class of the first argument; a dtype falls through to
\* `super().to(*args, **kwargs)`.
To(self, target, dtype) ==
    CASE target.tag = "str" -> ToStr(self, target, dtype)
      [] target.tag = "device" -> ToDevice(self, target, dtype)
      [] target.tag = "dtype" -> SuperTo(self, target)

\* Which objects a call of `to` hands around: the object a name is bound
\* to and the object that is its _tensor. x is the MetaTensor `to` is
\* called on.
SelfObject == [wrapper |-> "x", _tensor |-> "x._tensor"]

\* `super().to(dtype, non_blocking, copy)`: x itself when it has the dtype,
\* else the MetaTensor that __torch_dispatch__ wrapped around the converted
\* tensor.
SuperToObject(self, dtype) ==
    IF self.dtype = dtype THEN SelfObject
    ELSE [wrapper |-> "converted", _tensor |-> "converted._tensor"]

\* The result handed to the constructor as it is, without a copy.
DeepCopySameObject(obj) == obj

\* deepcopy(result): a new MetaTensor whose _tensor is a new tensor.
DeepCopyObject(obj) ==
    [wrapper |-> "deepcopy(" \o obj.wrapper \o ")",
     _tensor |-> "deepcopy(" \o obj._tensor \o ")"]

\* MetaTensor(elem, fake_device) on a MetaTensor elem: a new wrapper r with
\* `r._tensor = elem._tensor`, replaced by a new tensor only when that one
\* is not on meta.
MetaTensorNewObject(obj, elem) ==
    [wrapper |-> "r",
     _tensor |-> IF IsMeta(elem._tensor) THEN obj._tensor
                 ELSE "r._tensor.to(meta)"]

\* The objects of what the overloads of `to` for a str and a torch.device
\* return, and of what the fall-through to `super().to` returns.
ToObject(self, target, dtype) ==
    IF target.tag = "dtype" THEN SuperToObject(self, target)
    ELSE MetaTensorNewObject(
            DeepCopyObject(IF ~IsNone(dtype) THEN SuperToObject(self, dtype)
                           ELSE SelfObject),
            DeepCopy(IF ~IsNone(dtype) THEN SuperTo(self, dtype) ELSE self))

----------------------------------------------------------------------------
(* Calls *)

\* The keyword arguments of the model-level entry points at their defaults.
ModelDefaults ==
    [input_ids |-> None, attention_mask |-> None, decoder_input_ids |-> None,
     decoder_attention_mask |-> None, head_mask |-> None, decoder_head_mask |-> None,
     cross_attn_head_mask |-> None, encoder_outputs |-> None, past_key_values |-> None,
     inputs_embeds |-> None, decoder_inputs_embeds |-> None, labels |-> None,
     use_cache |-> None, output_attentions |-> None, output_hidden_states |-> None,
     return_dict |-> None, stage_manager |-> None, hidden_states |-> None,
     position_bias |-> None, encoder_decoder_position_bias |-> None,
     stage_index |-> None, decoder_starting_stage |-> None]

Opt(name) == {None, Tensor(name)}
Flag == {None, PyFalse, PyTrue}
Stages == 0..(NumStages - 1)
StageManagers == [tag : {"PipelineStageManager"}, stage : Stages, num_stages : {NumStages}]
\* [start, end) pairs, an end one past the held blocks included.
StageIndexes == (0..NumBlocks) \X (0..(NumBlocks + 1))
\* [start, end) pairs of a layer distribution.
PlanIndexes == {si \in (0..NumBlocks) \X (0..NumBlocks) : si[1] <= si[2]}

\* past_key_values as a caller may pass it: absent, empty, or one layer's states.
PastKeyValues == {None, PyTuple(<<>>), PyTuple(<<Tensor("past_key_value")>>)}

\* The unsupported-feature inputs of a call, in every combination.
FeatureInputs ==
    [past_key_values : PastKeyValues, use_cache : Flag,
     output_attentions : Flag, output_hidden_states : Flag]

\* The T5Stack objects a call may be made on.
Stacks(is_decoder, embed_tokens, gradient_checkpointing) ==
    [is_decoder : is_decoder, embed_tokens : embed_tokens,
     gradient_checkpointing : gradient_checkpointing, training : {TRUE}]

\* The T5Model / T5ForConditionalGeneration / T5EncoderModel objects.
Models(use_cache, use_return_dict, tie, gradient_checkpointing) ==
    [config : [use_cache : use_cache, use_return_dict : use_return_dict,
               tie_word_embeddings : tie,
               num_layers : {NumBlocks}, num_decoder_layers : {NumBlocks}],
     encoder : Stacks({FALSE}, {TRUE}, gradient_checkpointing),
     decoder : Stacks({TRUE}, {TRUE}, gradient_checkpointing)]

\* The values encoder_outputs may take at a decoder stage.
EncoderOutputs ==
    {None,
     PyTuple(<<Tensor("encoder_last_hidden_state")>>),
     [tag |-> "BaseModelOutput", last_hidden_state |-> Tensor("encoder_last_hidden_state"),
      hidden_states |-> None, attentions |-> None],
     [tag |-> "BaseModelOutputWithPastAndCrossAttentions",
      last_hidden_state |-> Tensor("encoder_last_hidden_state"),
      past_key_values |-> None, hidden_states |-> None, attentions |-> None,
      cross_attentions |-> None]}

\* The defaults of the entry point named fn.
Defaults(fn) == IF fn = "t5_stack_forward" THEN StackDefaults ELSE ModelDefaults

\* The entry point named fn, applied.
Forward(fn, self, a) ==
    CASE fn = "t5_stack_forward" -> T5StackForward(self, a)
      [] fn = "t5_model_forward" -> T5ModelForward(self, a)
      [] fn = "t5_for_conditional_generation_forward" ->
             T5ForConditionalGenerationForward(self, a)
      [] fn = "t5_encoder_model_forward" -> T5EncoderModelForward(self, a)

Idle == [fn |-> "idle"]
NoResult == [status |-> "none"]
NoPipe == [phase |-> "off"]

\* No MetaTensor constructed and no operation performed yet.
NoOp == [op |-> "none"]

\* The number of calls of __torch_dispatch__ that may be in progress at once,
\* and a call not in progress.
MaxCalls == 2
Slots == 1..MaxCalls
IdleFrame == [pc |-> "idle", fake_device |-> None]

Init ==
    /\ call = Idle
    /\ result = NoResult
    /\ pipe = NoPipe
    /\ heap = <<>>
    /\ last = NoOp
    /\ frames = [k \in Slots |-> IdleFrame]

\* A caller invokes the entry point fn.
Invoke(fn, self, a) ==
    /\ call' = [fn |-> fn, self |-> self, args |-> a]
    /\ result' = Forward(fn, self, a)
    /\ UNCHANGED pipe
    /\ UNCHANGED tensor_vars

\* Calls of t5_stack_forward: every stage, threshold, block range and
\* combination of the tensors handed in; every combination of the
\* unsupported-feature inputs and masks on either path through the loop; and
\* a stack without an embedding table, or a call without a stage manager.
StackCall ==
    /\ call.fn = "idle"
    /\ pipe.phase = "off"
    /\ \/ \E self \in Stacks(BOOLEAN, {TRUE}, {FALSE}),
             input_ids \in Opt("input_ids"), inputs_embeds \in Opt("inputs_embeds"),
             hidden_states \in Opt("hidden_states"),
             position_bias \in Opt("position_bias"),
             encoder_decoder_position_bias \in Opt("encoder_decoder_position_bias"),
             encoder_hidden_states \in Opt("encoder_hidden_states"),
             return_dict \in {PyFalse, PyTrue},
             stage_manager \in StageManagers,
             stage_index \in StageIndexes,
             decoder_starting_stage \in 0..NumStages :
            Invoke("t5_stack_forward", self,
                   With(StackDefaults,
                        [input_ids |-> input_ids, inputs_embeds |-> inputs_embeds,
                         hidden_states |-> hidden_states,
                         position_bias |-> position_bias,
                         encoder_decoder_position_bias |-> encoder_decoder_position_bias,
                         encoder_hidden_states |-> encoder_hidden_states,
                         return_dict |-> return_dict,
                         stage_manager |-> stage_manager,
                         stage_index |-> stage_index,
                         decoder_starting_stage |-> decoder_starting_stage]))
       \/ \E self \in Stacks(BOOLEAN, {TRUE}, BOOLEAN),
             features \in FeatureInputs,
             attention_mask \in Opt("attention_mask"),
             head_mask \in Opt("head_mask"),
             stage_manager \in StageManagers,
             decoder_starting_stage \in 0..NumStages :
            Invoke("t5_stack_forward", self,
                   With(With(StackDefaults, features),
                        [input_ids |-> Tensor("input_ids"),
                         hidden_states |-> Tensor("hidden_states"),
                         encoder_hidden_states |-> Tensor("encoder_hidden_states"),
                         attention_mask |-> attention_mask,
                         head_mask |-> head_mask,
                         return_dict |-> PyTrue,
                         stage_manager |-> stage_manager,
                         stage_index |-> <<0, NumBlocks>>,
                         decoder_starting_stage |-> decoder_starting_stage]))
       \/ \E self \in Stacks(BOOLEAN, {FALSE}, {FALSE}),
             input_ids \in Opt("input_ids"), inputs_embeds \in Opt("inputs_embeds"),
             hidden_states \in Opt("hidden_states"),
             stage_manager \in StageManagers \cup {None},
             decoder_starting_stage \in 0..NumStages :
            Invoke("t5_stack_forward", self,
                   With(StackDefaults,
                        [input_ids |-> input_ids, inputs_embeds |-> inputs_embeds,
                         hidden_states |-> hidden_states,
                         stage_manager |-> stage_manager,
                         stage_index |-> <<0, NumBlocks>>,
                         decoder_starting_stage |-> decoder_starting_stage]))

\* Calls of t5_model_forward and t5_for_conditional_generation_forward (fn):
\* every stage, threshold and block range with every combination of the
\* inputs a stage consumes; and every combination of the unsupported-feature
\* inputs.
RouterCall(fn) ==
    /\ call.fn = "idle"
    /\ pipe.phase = "off"
    /\ \/ \E self \in Models({FALSE}, {TRUE}, {TRUE}, {FALSE}),
             input_ids \in Opt("input_ids"),
             decoder_input_ids \in Opt("decoder_input_ids"),
             hidden_states \in Opt("hidden_states"),
             encoder_outputs \in EncoderOutputs,
             labels \in Opt("labels"),
             return_dict \in Flag,
             stage_manager \in StageManagers,
             stage_index \in PlanIndexes,
             decoder_starting_stage \in 0..NumStages :
            Invoke(fn, self,
                   With(ModelDefaults,
                        [input_ids |-> input_ids,
                         decoder_input_ids |-> decoder_input_ids,
                         hidden_states |-> hidden_states,
                         encoder_outputs |-> encoder_outputs,
                         labels |-> labels,
                         return_dict |-> return_dict,
                         stage_manager |-> stage_manager,
                         stage_index |-> stage_index,
                         decoder_starting_stage |-> decoder_starting_stage]))
       \/ \E self \in Models(BOOLEAN, {TRUE}, {TRUE}, {FALSE}),
             features \in FeatureInputs,
             head_mask \in Opt("head_mask"),
             stage_manager \in StageManagers,
             decoder_starting_stage \in 0..NumStages :
            Invoke(fn, self,
                   With(With(ModelDefaults, features),
                        [input_ids |-> Tensor("input_ids"),
                         decoder_input_ids |-> Tensor("decoder_input_ids"),
                         hidden_states |-> Tensor("hidden_states"),
                         encoder_outputs |->
                             PyTuple(<<Tensor("encoder_last_hidden_state")>>),
                         head_mask |-> head_mask,
                         stage_manager |-> stage_manager,
                         stage_index |-> <<0, NumBlocks>>,
                         decoder_starting_stage |-> decoder_starting_stage]))

ModelCall == RouterCall("t5_model_forward")

ConditionalGenerationCall == RouterCall("t5_for_conditional_generation_forward")

\* Calls of t5_encoder_model_forward.
EncoderModelCall ==
    /\ call.fn = "idle"
    /\ pipe.phase = "off"
    /\ \/ \E self \in Models({FALSE}, BOOLEAN, {TRUE}, {FALSE}),
             input_ids \in Opt("input_ids"), inputs_embeds \in Opt("inputs_embeds"),
             hidden_states \in Opt("hidden_states"),
             position_bias \in Opt("position_bias"),
             return_dict \in Flag,
             stage_manager \in StageManagers,
             stage_index \in PlanIndexes,
             decoder_starting_stage \in 0..NumStages :
            Invoke("t5_encoder_model_forward", self,
                   With(ModelDefaults,
                        [input_ids |-> input_ids, inputs_embeds |-> inputs_embeds,
                         hidden_states |-> hidden_states,
                         position_bias |-> position_bias,
                         return_dict |-> return_dict,
                         stage_manager |-> stage_manager,
                         stage_index |-> stage_index,
                         decoder_starting_stage |-> decoder_starting_stage]))
       \/ \E self \in Models({FALSE}, {TRUE}, {TRUE}, BOOLEAN),
             output_attentions \in Flag, output_hidden_states \in Flag,
             stage_manager \in StageManagers,
             decoder_starting_stage \in 0..NumStages :
            Invoke("t5_encoder_model_forward", self,
                   With(ModelDefaults,
                        [output_attentions |-> output_attentions,
                         output_hidden_states |-> output_hidden_states,
                         input_ids |-> Tensor("input_ids"),
                         hidden_states |-> Tensor("hidden_states"),
                         stage_manager |-> stage_manager,
                         stage_index |-> <<0, NumBlocks>>,
                         decoder_starting_stage |-> decoder_starting_stage]))

\* A layer distribution: the encoder blocks over the stages below the
\* threshold and the decoder blocks over the stages from it on, each stage a
\* contiguous range.
ValidPlan(plan, decoder_starting_stage) ==
    \A s \in Stages :
        /\ AtFirstStage(s, decoder_starting_stage) => plan[s][1] = 0
        /\ IF AtLastStage(s, decoder_starting_stage, NumStages)
           THEN plan[s][2] = NumBlocks
           ELSE plan[s + 1][1] = plan[s][2]

Plans(decoder_starting_stage) ==
    {plan \in [Stages -> PlanIndexes] : ValidPlan(plan, decoder_starting_stage)}

\* The runs of a pipeline over the entry point fn with threshold dss: the
\* model, the layer distribution and the micro-batch every stage is called with.
PipelineRuns(fn, dss) ==
    [fn : {fn},
     self : Models({FALSE}, BOOLEAN, {TRUE}, {FALSE}),
     decoder_starting_stage : {dss},
     plan : Plans(dss),
     batch : [input_ids : {Tensor("input_ids")},
              decoder_input_ids : {Tensor("decoder_input_ids")},
              labels : Opt("labels"),
              use_cache : {None, PyTrue}]]

\* The runs of a decoder stack on its own, every stage a decoder stage.
StackRuns ==
    [fn : {"t5_stack_forward"},
     self : Stacks({TRUE}, {TRUE}, BOOLEAN),
     decoder_starting_stage : {0},
     plan : Plans(0),
     batch : [input_ids : {Tensor("decoder_input_ids")},
              encoder_hidden_states : Opt("encoder_hidden_states"),
              return_dict : {PyTrue}]]

\* The arguments stage s of a run is called with: the micro-batch, what the
\* previous stage returned, and this stage's place in the plan.
StageArgs(run, s, bundle) ==
    With(With(With(Defaults(run.fn), run.batch), bundle),
         [stage_manager |-> [tag |-> "PipelineStageManager", stage |-> s,
                             num_stages |-> NumStages],
          stage_index |-> run.plan[s],
          decoder_starting_stage |-> run.decoder_starting_stage])

\* A pipeline run starts: nothing has been computed yet.
PipelineStart ==
    /\ call.fn = "idle"
    /\ pipe.phase = "off"
    /\ \/ \E fn \in {"t5_model_forward", "t5_for_conditional_generation_forward"},
             dss \in 1..(NumStages - 1) :
            \E run \in PipelineRuns(fn, dss) :
               pipe' = [phase |-> "run", run |-> run, stage |-> 0,
                        bundle |-> [tag |-> "dict"]]
       \/ \E run \in PipelineRuns("t5_encoder_model_forward", NumStages) :
            pipe' = [phase |-> "run", run |-> run, stage |-> 0,
                     bundle |-> [tag |-> "dict"]]
       \/ \E run \in StackRuns :
            pipe' = [phase |-> "run", run |-> run, stage |-> 0,
                     bundle |-> [tag |-> "dict"]]
    /\ UNCHANGED <<call, result>>
    /\ UNCHANGED tensor_vars

\* Where the run stands after a stage returned or raised res.
AfterStage(p, res) ==
    IF res.status = "raise" THEN [p EXCEPT !.phase = "failed"]
    ELSE IF p.stage = NumStages - 1 THEN [p EXCEPT !.phase = "finished"]
    ELSE IF res.value.tag # "dict" THEN [p EXCEPT !.phase = "failed"]
    ELSE [p EXCEPT !.stage = p.stage + 1, !.bundle = res.value]

\* The stage is called with the arguments a.
RunStage(a, res) ==
    /\ call' = [fn |-> pipe.run.fn, self |-> pipe.run.self, args |-> a]
    /\ result' = res
    /\ pipe' = AfterStage(pipe, res)
    /\ UNCHANGED tensor_vars

\* The next stage of the run is called with what the stage before returned.
PipelineStage ==
    /\ pipe.phase = "run"
    /\ RunStage(StageArgs(pipe.run, pipe.stage, pipe.bundle),
                Forward(pipe.run.fn, pipe.run.self,
                        StageArgs(pipe.run, pipe.stage, pipe.bundle)))

\* The run is over and its outcome taken.
PipelineEnd ==
    /\ pipe.phase \in {"failed", "finished"}
    /\ call' = Idle
    /\ result' = NoResult
    /\ pipe' = NoPipe
    /\ UNCHANGED tensor_vars

\* The caller takes the outcome; the next call is independent of this one.
Done ==
    /\ call.fn # "idle"
    /\ pipe.phase = "off"
    /\ call' = Idle
    /\ result' = NoResult
    /\ UNCHANGED pipe
    /\ UNCHANGED tensor_vars

Next ==
    \/ StackCall
    \/ ModelCall
    \/ ConditionalGenerationCall
    \/ EncoderModelCall
    \/ Done
    \/ PipelineStart
    \/ PipelineStage
    \/ PipelineEnd

Spec == Init /\ [][Next]_all_vars

----------------------------------------------------------------------------
(* Operations on MetaTensors *)

\* The number of MetaTensor objects kept in view: the most recent ones.
MaxObjects == 2

\* The devices and device names a caller may ask for, the dtypes, and the
\* plain tensors a caller may hold.
Devices == {Device("cpu", -1), Device("cuda", 0)}
Locations == Devices \cup {Str("cuda:1")}
Dtypes == {Dtype("float32"), Dtype("uint8")}
PlainTensors ==
    {PlainTensor(d, Dtype("float32"), "x") : d \in {Device("cpu", -1), Meta, Device("cuda", 1)}}

\* The operations that may be intercepted, by the shape of their result.
Funcs ==
    {[name |-> "f", returns |-> r] : r \in {"tensor", "list", "nested", "number"}}
TensorFunc == [name |-> "f", returns |-> "tensor"]

Range(seq) == {seq[n] : n \in 1..Len(seq)}
Keep(objs) ==
    IF Len(objs) <= MaxObjects THEN objs
    ELSE SubSeq(objs, Len(objs) - MaxObjects + 1, Len(objs))
MetaTensorsOf(tree) == SelectSeq(Flatten(tree), IsMetaTensor)

\* What may be handed to an operation: a MetaTensor in view, a plain
\* tensor, or a number.
Operands == Range(heap) \cup PlainTensors \cup {PyInt(2)}

\* MetaTensor(elem, fake_device)
Construct ==
    /\ last = NoOp
    /\ \E elem \in PlainTensors \cup Range(heap), fake_device \in Locations \cup {None} :
          /\ last' = [op |-> "Construct", elem |-> elem, fake_device |-> fake_device,
                      result |-> MetaTensorNew(elem, fake_device)]
          /\ heap' = Keep(Append(heap, MetaTensorNew(elem, fake_device)))
    /\ UNCHANGED frames
    /\ UNCHANGED vars

\* __torch_dispatch__ intercepts func called with args and kwargs.
Intercept(func, args, kwargs) ==
    /\ last' = TorchDispatch(func, args, kwargs)
    /\ heap' = Keep(heap \o MetaTensorsOf(last'.result))
    /\ UNCHANGED frames
    /\ UNCHANGED vars

\* An operation on tensors is intercepted: with one operand and any shape
\* of result, or a device or dtype keyword; with two operands, side by side
\* or in a list; with a tensor among the keywords, before or after a device
\* keyword; and with no operand at all.
Dispatch ==
    /\ last = NoOp
    /\ \/ \E func \in Funcs, x \in Operands :
            Intercept(func, PyTuple(<<x>>), <<>>)
       \/ \E x \in Operands,
             kw \in {[key |-> "device", value |-> Device("cuda", 0)],
                     [key |-> "dtype", value |-> Dtype("uint8")]} :
            Intercept(TensorFunc, PyTuple(<<x>>), <<kw>>)
       \/ \E x \in Operands, y \in Operands :
            Intercept(TensorFunc, PyTuple(<<x, y>>), <<>>)
       \/ \E x \in Range(heap), y \in Range(heap) \cup PlainTensors :
            Intercept(TensorFunc, PyTuple(<<PyTuple(<<x, y>>)>>), <<>>)
       \/ \E x \in Range(heap), y \in Range(heap) \cup PlainTensors :
            \/ Intercept(TensorFunc, PyTuple(<<x>>), <<[key |-> "other", value |-> y]>>)
            \/ Intercept(TensorFunc, PyTuple(<<x>>),
                         <<[key |-> "device", value |-> Device("cuda", 0)],
                           [key |-> "other", value |-> y]>>)
       \/ \E func \in Funcs, kwargs \in {<<>>, <<[key |-> "device", value |-> Device("cuda", 0)]>>} :
            Intercept(func, PyTuple(<<>>), kwargs)

\* x.to(target) and x.to(target, dtype) on a MetaTensor x in view.
ConvertTo ==
    /\ last = NoOp
    /\ \E self \in Range(heap), target \in Locations \cup Dtypes,
          dtype \in {None} \cup Dtypes :
          /\ target.tag = "dtype" => IsNone(dtype)
          /\ last' = [op |-> "to", self |-> self, target |-> target, dtype |-> dtype,
                      result |-> To(self, target, dtype),
                      objects |-> ToObject(self, target, dtype)]
          /\ heap' = IF target.tag = "dtype" /\ target = self.dtype THEN heap
                     ELSE Keep(Append(heap, last'.result))
    /\ UNCHANGED frames
    /\ UNCHANGED vars

\* The operation has returned; the next one is independent of it.
Returns ==
    /\ last # NoOp
    /\ last' = NoOp
    /\ UNCHANGED <<heap, frames>>
    /\ UNCHANGED vars

TensorNext ==
    \/ Construct
    \/ Dispatch
    \/ ConvertTo
    \/ Returns

TensorSpec == Init /\ [][TensorNext]_all_vars

----------------------------------------------------------------------------
(* Operations on tensors of several shapes and strides *)

\* Plain tensors that are views: every second element of a vector on cpu
\* that requires grad, taken from the second on; a transposed matrix on
\* cuda:1; and every second element of a vector on meta.
ShapedTensors ==
    {[View(PlainTensor(Device("cpu", -1), Dtype("float32"), "x"), <<2>>, <<2>>, 1)
         EXCEPT !.requires_grad = TRUE],
     View(PlainTensor(Device("cuda", 1), Dtype("float32"), "x"), <<3, 2>>, <<1, 3>>, 0),
     View(PlainTensor(Meta, Dtype("float32"), "x"), <<2>>, <<2>>, 0)}

\* MetaTensor(elem, fake_device) of a view or of a MetaTensor in view.
ConstructShaped ==
    /\ last = NoOp
    /\ \E elem \in ShapedTensors \cup Range(heap), fake_device \in {None, Device("cuda", 0)} :
          /\ last' = [op |-> "Construct", elem |-> elem, fake_device |-> fake_device,
                      result |-> MetaTensorNew(elem, fake_device)]
          /\ heap' = Keep(Append(heap, MetaTensorNew(elem, fake_device)))
    /\ UNCHANGED frames
    /\ UNCHANGED vars

\* An operation on MetaTensors in view and on views is intercepted: with one
\* operand and any shape of result, and with two operands.
DispatchShaped ==
    /\ last = NoOp
    /\ \/ \E func \in Funcs, x \in Range(heap) \cup ShapedTensors :
            Intercept(func, PyTuple(<<x>>), <<>>)
       \/ \E x \in Range(heap), y \in Range(heap) \cup ShapedTensors :
            Intercept(TensorFunc, PyTuple(<<x, y>>), <<>>)

ShapedNext ==
    \/ ConstructShaped
    \/ DispatchShaped
    \/ Returns

ShapedSpec == Init /\ [][ShapedNext]_all_vars

----------------------------------------------------------------------------
(* Calls of __torch_dispatch__ in progress together *)

\* What a call in progress may be made with: a MetaTensor that reports cpu
\* or cuda:0, a device keyword, or both.
CallOperand(d) ==
    MetaTensorNew(PlainTensor(Device("cpu", -1), Dtype("float32"), "x"), d)
CallArguments ==
    {[args |-> <<CallOperand(None)>>, kwargs |-> <<>>],
     [args |-> <<CallOperand(Device("cuda", 0))>>, kwargs |-> <<>>],
     [args |-> <<>>, kwargs |-> <<[key |-> "device", value |-> Device("cuda", 1)]>>],
     [args |-> <<CallOperand(Device("cuda", 0))>>,
      kwargs |-> <<[key |-> "device", value |-> Device("cuda", 1)]>>]}

\* One variable fake_device for all the calls in progress.
SharedCell(k) == 1

\* `fake_device = None` is a local variable of the call, and `nonlocal
\* fake_device` in unwrap and wrap names the variable of the call they were
\* defined in: call k reads and writes its own.
Cell(k) == k

\* The calls made from within call k that have not returned yet.
Children(k) == {c \in Slots : frames[c].pc # "idle" /\ frames[c].parent = k}

\* __torch_dispatch__ is entered, by a caller of its own (parent 0) or from
\* within the operation another call is running; `fake_device = None`. The
\* call takes the first free place among the calls in progress.
EnterDispatch ==
    \E k \in Slots, parent \in {0} \cup Slots, a \in CallArguments :
       /\ frames[k].pc = "idle"
       /\ \A c \in 1..(k - 1) : frames[c].pc # "idle"
       /\ parent # 0 => (parent # k /\ frames[parent].pc = "func")
       /\ frames' =
             [[frames EXCEPT ![k] =
                  [pc |-> "capture", fake_device |-> frames[k].fake_device,
                   parent |-> parent, func |-> TensorFunc,
                   args |-> PyTuple(a.args), kwargs |-> a.kwargs,
                   called_args |-> PyTuple(a.args), called_kwargs |-> a.kwargs,
                   out |-> None, nested |-> <<>>]]
              EXCEPT ![Cell(k)].fake_device = None]
       /\ last' = NoOp
       /\ UNCHANGED heap
       /\ UNCHANGED vars

\* `if 'device' in kwargs: fake_device = kwargs['device']; kwargs['device'] =
\* torch.device('meta')`
CaptureDeviceKeyword ==
    \E k \in Slots :
       /\ frames[k].pc = "capture"
       /\ frames' =
             [[frames EXCEPT ![k].pc = "unwrap",
                             ![k].called_kwargs = MetaKwargs(frames[k].kwargs)]
              EXCEPT ![Cell(k)].fake_device =
                         IF HasKey(frames[k].kwargs, "device")
                         THEN DeviceKwarg(frames[k].kwargs) ELSE @]
       /\ last' = NoOp
       /\ UNCHANGED heap
       /\ UNCHANGED vars

\* `args = tree_map(unwrap, args); kwargs = tree_map(unwrap, kwargs)`
UnwrapArguments ==
    \E k \in Slots :
       /\ frames[k].pc = "unwrap"
       /\ frames' =
             [[frames EXCEPT ![k].pc = "func",
                             ![k].called_args = UnwrapTree(frames[k].args),
                             ![k].called_kwargs = UnwrapKwargs(frames[k].called_kwargs)]
              EXCEPT ![Cell(k)].fake_device =
                         VisitLeaves(Flatten(Values(frames[k].called_kwargs)),
                                     VisitLeaves(Flatten(frames[k].args), @))]
       /\ last' = NoOp
       /\ UNCHANGED heap
       /\ UNCHANGED vars

\* `out = func(*args, **kwargs)` returns, once the calls made from within
\* it have returned.
FuncReturns ==
    \E k \in Slots :
       /\ frames[k].pc = "func"
       /\ Children(k) = {}
       /\ frames' = [frames EXCEPT ![k].pc = "wrap",
                                   ![k].out = Func(frames[k].func, frames[k].called_args,
                                                   frames[k].called_kwargs)]
       /\ last' = NoOp
       /\ UNCHANGED heap
       /\ UNCHANGED vars

\* `return tree_map(wrap, out)`: the call returns what wrap makes of out with
\* the fake_device it reads; the call it was made from, if any, keeps the
\* fake_device of the call last made from within it.
WrapResult ==
    \E k \in Slots :
       /\ frames[k].pc = "wrap"
       /\ last' = [op |-> "DispatchReturn", slot |-> k,
                   parent |-> frames[k].parent, nested |-> frames[k].nested,
                   call |-> Dispatched(frames[k].func, frames[k].args, frames[k].kwargs,
                                       frames[k].called_args, frames[k].called_kwargs,
                                       frames[Cell(k)].fake_device, frames[k].out)]
       /\ frames' =
             [c \in Slots |->
                IF c = k THEN IdleFrame
                ELSE IF c = frames[k].parent
                THEN [frames[c] EXCEPT !.nested = <<frames[Cell(k)].fake_device>>]
                ELSE frames[c]]
       /\ UNCHANGED heap
       /\ UNCHANGED vars

ReentrantNext ==
    \/ EnterDispatch
    \/ CaptureDeviceKeyword
    \/ UnwrapArguments
    \/ FuncReturns
    \/ WrapResult

ReentrantSpec == Init /\ [][ReentrantNext]_all_vars

----------------------------------------------------------------------------
(* Properties *)

IsCall == call.fn # "idle"
HasStage == IsCall /\ ~IsNone(call.args.stage_manager)
CallStage == call.args.stage_manager.stage
CallThreshold == call.args.decoder_starting_stage
Raised(exc) == result.status = "raise" /\ result.exc = exc
Returned == result.status = "return"
OnRouter == call.fn \in {"t5_model_forward", "t5_for_conditional_generation_forward"}
\* The call is a call of t5_stack_forward with the caller's stage manager.
OnStack == call.fn \in {"t5_stack_forward", "t5_encoder_model_forward"}
TheStack == IF call.fn = "t5_stack_forward" THEN call.self ELSE call.self.encoder
DictKeys(v) == DOMAIN v \ {"tag"}
BundleKeys == {"hidden_states", "position_bias", "encoder_decoder_position_bias"}
BlockEvents == SelectSeq(result.events, LAMBDA e : e.ev = "block")
BlocksRun == [k \in 1..Len(BlockEvents) |-> BlockEvents[k].i]
EventCount(name) == Len(SelectSeq(result.events, LAMBDA e : e.ev = name))
LastOp(t) == t.hist[Len(t.hist)].op

\* The value is the output of the language-model head: the logits, and a
\* loss exactly when withLoss.
IsLMOutput(v, withLoss) ==
    \/ /\ v.tag = "Seq2SeqLMOutput"
       /\ LastOp(v.logits) = "lm_head"
       /\ IsNone(v.loss) = ~withLoss
    \/ /\ v.tag = "tuple"
       /\ IF withLoss
          THEN Len(v.items) >= 2 /\ LastOp(v.items[1]) = "cross_entropy"
               /\ LastOp(v.items[2]) = "lm_head"
          ELSE Len(v.items) >= 1 /\ LastOp(v.items[1]) = "lm_head"

\* C1: in a pipeline run of t5_for_conditional_generation_forward over the
\* stages 0..NumStages-1 of an aligned plan, each stage fed the bundle the
\* stage before returned, no stage raises and the last stage returns the
\* vocabulary logits, with a loss if and only if labels were supplied.
C1_RunReturnsLogits ==
    (pipe.phase # "off"
        /\ pipe.run.fn = "t5_for_conditional_generation_forward") =>
       /\ pipe.phase # "failed"
       /\ pipe.phase = "finished" =>
             /\ Returned
             /\ IsLMOutput(result.value, ~IsNone(pipe.run.batch.labels))

\* C2: at an encoder stage of t5_model_forward and of
\* t5_for_conditional_generation_forward a call that returns, returns a
\* mapping whose only key is encoder_outputs exactly when the stage is
\* decoder_starting_stage - 1; at every other encoder stage it returns what
\* the encoder stack returned, the bundle of hidden_states, position_bias and
\* encoder_decoder_position_bias.
C2_EncoderHandOver ==
    (OnRouter /\ HasStage /\ CallStage < CallThreshold /\ Returned) =>
       LET stack == T5StackForward(call.self.encoder,
                        EncoderStackArgs(call.args, RouterPrologue(call.self, call.args)))
       IN /\ (result.value.tag = "dict" /\ DictKeys(result.value) = {"encoder_outputs"})
                <=> (CallStage = CallThreshold - 1)
          /\ CallStage = CallThreshold - 1 =>
                result.value.encoder_outputs = stack.value
          /\ CallStage # CallThreshold - 1 =>
                /\ result = stack
                /\ result.value.tag = "dict"
                /\ DictKeys(result.value) = BundleKeys

C2_Witness ==
    /\ OnRouter /\ HasStage /\ Returned
    /\ CallStage = CallThreshold - 1
    /\ DictKeys(result.value) = {"encoder_outputs"}
    /\ Len(BlockEvents) = NumBlocks

\* C3: a call of t5_model_forward or t5_for_conditional_generation_forward
\* at a decoder stage with encoder_outputs = None fails with a ValueError,
\* whatever the other inputs, and runs no block.
C3_DecoderNeedsEncoderOutputs ==
    (OnRouter /\ HasStage /\ CallStage >= CallThreshold
        /\ IsNone(call.args.encoder_outputs)) =>
       /\ Raised("ValueError")
       /\ result.events = <<>>

C3_Witness ==
    /\ OnRouter /\ HasStage /\ CallStage > CallThreshold
    /\ IsNone(call.args.encoder_outputs)
    /\ ~IsNone(call.args.hidden_states)
    /\ ~IsNone(call.args.decoder_input_ids)
    /\ Raised("ValueError")

FirstStageErrors == {"both_inputs", "no_inputs", "no_embed_tokens"}

\* C4: a call of t5_stack_forward at the first stage of its sub-model (stage
\* 0 or stage decoder_starting_stage) with both input_ids and inputs_embeds,
\* or with neither, fails with a ValueError; with exactly one of them (and
\* an embedding table when it is the ids) the first-stage input check passes.
C4_FirstStageExclusivity ==
    (call.fn = "t5_stack_forward" /\ HasStage
        /\ (CallStage = 0 \/ CallStage = CallThreshold)) =>
       LET ids == ~IsNone(call.args.input_ids)
           embeds == ~IsNone(call.args.inputs_embeds)
       IN /\ (ids = embeds) => Raised("ValueError")
          /\ (ids # embeds /\ (ids => call.self.embed_tokens)) =>
                ~(result.status = "raise" /\ result.msg \in FirstStageErrors)

C4_Witness ==
    /\ call.fn = "t5_stack_forward" /\ HasStage
    /\ CallStage = CallThreshold /\ CallStage > 0
    /\ ~IsNone(call.args.input_ids) /\ ~IsNone(call.args.inputs_embeds)
    /\ Raised("ValueError") /\ result.msg = "both_inputs"

HiddenStateErrors == {"hidden_states_none", "decoder_hidden_states_none"}

\* C5: at a stage that is not the first stage of its sub-model a call with
\* hidden_states = None fails with a ValueError, in t5_stack_forward and on
\* the decoder route of t5_model_forward and
\* t5_for_conditional_generation_forward; at a first stage hidden_states =
\* None is accepted.
C5_LaterStagesNeedHiddenStates ==
    /\ (OnStack /\ HasStage /\ IsNone(call.args.hidden_states)) =>
          IF CallStage # 0 /\ CallStage # CallThreshold
          THEN Raised("ValueError")
          ELSE ~(result.status = "raise" /\ result.msg \in HiddenStateErrors)
    /\ (OnRouter /\ HasStage /\ CallStage >= CallThreshold
           /\ IsNone(call.args.hidden_states)) =>
          IF CallStage # CallThreshold
          THEN Raised("ValueError")
          ELSE ~(result.status = "raise" /\ result.msg \in HiddenStateErrors)

C5_Witness ==
    /\ call.fn = "t5_stack_forward" /\ HasStage
    /\ CallStage # 0 /\ CallStage # CallThreshold
    /\ IsNone(call.args.hidden_states)
    /\ ~IsNone(call.args.input_ids)
    /\ Raised("ValueError") /\ result.msg = "hidden_states_none"

\* C6: t5_stack_forward fails with a ValueError whenever the stack's
\* is_decoder differs from stage >= decoder_starting_stage, whatever the
\* inputs are and before any input is processed or block run; when the two
\* agree the alignment check passes.
C6_StageAlignment ==
    (OnStack /\ HasStage) =>
       IF TheStack.is_decoder # (CallStage >= CallThreshold)
       THEN /\ Raised("ValueError")
            /\ result.msg = "not_aligned"
            /\ result.events = <<>>
       ELSE ~(result.status = "raise" /\ result.msg = "not_aligned")

C6_Witness ==
    /\ call.fn = "t5_stack_forward" /\ HasStage
    /\ TheStack.is_decoder /\ CallStage < CallThreshold
    /\ ~IsNone(call.args.input_ids) /\ ~IsNone(call.args.inputs_embeds)
    /\ Raised("ValueError") /\ result.msg = "not_aligned"

\* C7: a call that returns with stage_index = (start, end) has run exactly
\* the blocks start, start+1, ..., end-1, once each and in ascending order,
\* and no block outside that range (none at all when start >= end).
C7_BlockRange ==
    (IsCall /\ Returned) =>
       LET start == call.args.stage_index[1]
           end == call.args.stage_index[2]
       IN BlocksRun = [k \in 1..(IF end > start THEN end - start ELSE 0)
                          |-> start + k - 1]

C7_Witness ==
    /\ call.fn = "t5_stack_forward" /\ Returned
    /\ call.args.stage_index = <<1, NumBlocks>>
    /\ BlocksRun = [k \in 1..(NumBlocks - 1) |-> k]

\* The call with every feature flag that is on turned off, and a non-empty
\* past_key_values dropped.
FlagOff(flag) == IF flag = PyTrue THEN PyFalse ELSE flag
FeaturesOff(a) ==
    [k \in DOMAIN a |->
        IF k \in {"use_cache", "output_attentions", "output_hidden_states"}
        THEN FlagOff(a[k])
        ELSE IF k = "past_key_values" /\ Truthy(a[k]) THEN None ELSE a[k]]
FeatureOn(a) ==
    \E k \in DOMAIN a :
       \/ k \in {"use_cache", "output_attentions", "output_hidden_states"}
             /\ a[k] = PyTrue
       \/ k = "past_key_values" /\ Truthy(a[k])
\* The returned value carries no cache and no collection of hidden states
\* or of attention weights.
CollectionFields ==
    {"past_key_values", "hidden_states", "attentions", "cross_attentions",
     "decoder_hidden_states", "decoder_attentions", "encoder_hidden_states",
     "encoder_attentions"}
OutputClean(v) ==
    IF v.tag = "tuple"
    THEN \A k \in 1..Len(v.items) : v.items[k].tag = "Tensor"
    ELSE \A k \in DictKeys(v) \cap CollectionFields : IsNone(v[k])
NothingCollected(v) ==
    IF v.tag = "dict"
    THEN "encoder_outputs" \in DOMAIN v => OutputClean(v.encoder_outputs)
    ELSE OutputClean(v)

IsFirstStage == CallStage = 0 \/ CallStage = CallThreshold
IsFinalStage ==
    CallStage = CallThreshold - 1 \/ CallStage = call.args.stage_manager.num_stages - 1

\* C9: a call of t5_stack_forward that returns has applied the final layer
\* normalization and then the dropout, after every block of the stage, and
\* returns the full output, exactly when the stage is decoder_starting_stage
\* - 1 or num_stages - 1; at every other stage it has applied neither and
\* returns the bundle of hidden_states, position_bias and
\* encoder_decoder_position_bias.
C9_FinalNormOnLastStage ==
    (OnStack /\ HasStage /\ Returned) =>
       LET n == Len(result.events)
       IN IF IsFinalStage
          THEN /\ result.value.tag \in {"tuple", "BaseModelOutputWithPastAndCrossAttentions"}
               /\ n >= 2
               /\ result.events[n - 1].ev = "final_layer_norm"
               /\ result.events[n].ev = "dropout"
               /\ EventCount("final_layer_norm") = 1
               /\ EventCount("dropout") = 1 + (IF IsFirstStage THEN 1 ELSE 0)
               /\ LastOp(Item(result.value, 0)) = "dropout"
          ELSE /\ result.value.tag = "dict"
               /\ DictKeys(result.value) = BundleKeys
               /\ EventCount("final_layer_norm") = 0
               /\ EventCount("dropout") = (IF IsFirstStage THEN 1 ELSE 0)
               /\ n > 0 => result.events[n].ev \in {"block", "dropout"}
               /\ (n > 0 /\ result.events[n].ev = "dropout") => Len(BlockEvents) = 0

C9_Witness ==
    /\ call.fn = "t5_stack_forward" /\ HasStage /\ Returned
    /\ CallStage = call.args.stage_manager.num_stages - 1
    /\ CallStage # CallThreshold - 1
    /\ ~IsFirstStage
    /\ Len(BlockEvents) = NumBlocks
    /\ result.events[Len(result.events) - 1].ev = "final_layer_norm"

\* The position bias block invocation e hands on: the one it was given, or
\* the one it computed when it was given none.
BiasAfter(e) ==
    IF IsNone(e.position_bias)
    THEN T5Block(TheStack.is_decoder, e)[IF Truthy(e.use_cache) THEN 3 ELSE 2]
    ELSE e.position_bias

\* C10: in a call of t5_stack_forward the first block run receives the
\* incoming position_bias and every later block the position_bias the block
\* before it returned; a stage that is not a last stage returns the bias of
\* its last block; and over the stages of one sub-model, each fed the bundle
\* of the stage before, every block after the first one run receives a
\* position_bias that is not None and that it did not compute.
C10_PositionBiasThreaded ==
    (OnStack /\ HasStage) =>
       /\ Len(BlockEvents) > 0 =>
             BlockEvents[1].position_bias = call.args.position_bias
       /\ \A k \in 2..Len(BlockEvents) :
             /\ BlockEvents[k].position_bias = BiasAfter(BlockEvents[k - 1])
             /\ ~IsNone(BlockEvents[k].position_bias)
       /\ (Returned /\ result.value.tag = "dict") =>
             result.value.position_bias =
                IF Len(BlockEvents) > 0
                THEN BiasAfter(BlockEvents[Len(BlockEvents)])
                ELSE call.args.position_bias
       /\ (pipe.phase # "off") =>
             \A k \in 1..Len(BlockEvents) :
                BlockEvents[k].i > 0 =>
                   /\ ~IsNone(BlockEvents[k].position_bias)
                   /\ LastOp(BlockEvents[k].position_bias) = "compute_bias"
                   /\ BlockEvents[k].position_bias.hist[
                         Len(BlockEvents[k].position_bias.hist)].i = 0

C10_Witness ==
    /\ pipe.phase # "off" /\ OnStack /\ HasStage /\ Returned
    /\ CallStage > 0
    /\ Len(BlockEvents) > 0
    /\ BlockEvents[1].i > 0
    /\ ~IsNone(BlockEvents[1].position_bias)
    /\ BlockEvents[1].position_bias = call.args.position_bias

\* C11: a call of t5_model_forward or t5_for_conditional_generation_forward
\* at a decoder stage that is not the last stage of the pipeline, given the
\* encoder_outputs and the inputs its stage needs, returns a bundle that
\* holds encoder_outputs with the encoder last hidden state it received, so
\* that the next decoder stage, fed that bundle, has its encoder_outputs.
C11_DecoderBundleCarriesEncoderOutputs ==
    (OnRouter /\ HasStage
        /\ CallStage >= CallThreshold
        /\ CallStage # call.args.stage_manager.num_stages - 1
        /\ ~IsNone(call.args.encoder_outputs)
        /\ (IF CallStage = CallThreshold
            THEN ~IsNone(call.args.decoder_input_ids)
            ELSE ~IsNone(call.args.hidden_states))
        /\ call.args.stage_index[2] <= NumBlocks) =>
       /\ Returned
       /\ result.value.tag = "dict"
       /\ "encoder_outputs" \in DOMAIN result.value
       /\ Item(result.value.encoder_outputs, 0) = Item(call.args.encoder_outputs, 0)

\* C20: in every call, each invocation of a block, through checkpoint or
\* directly, is immediately preceded by one selection of the device of the
\* hidden states the block is invoked with, which are the output of the
\* block before it when there is one; and a device is selected nowhere else.
C20_SetDeviceBeforeEachBlock ==
    result.status # "none" =>
       LET ev == result.events
       IN /\ \A k \in 1..Len(ev) :
                ev[k].ev = "block" =>
                   /\ k > 1
                   /\ ev[k - 1].ev = "set_device"
                   /\ ev[k - 1].i = ev[k].i
                   /\ ev[k - 1].of = ev[k].hidden_states
                   /\ (k > 2 /\ ev[k - 2].ev = "block") =>
                         ev[k - 1].of =
                            Apply(ev[k - 2].hidden_states, "block", ev[k - 2].i)
          /\ \A k \in 1..Len(ev) :
                ev[k].ev = "set_device" => (k < Len(ev) /\ ev[k + 1].ev = "block")
          /\ EventCount("set_device") = Len(BlockEvents)
          /\ \A k \in 1..Len(BlockEvents) :
                BlockEvents[k].path \in {"checkpoint", "direct"}

C20_Witness ==
    /\ Returned
    /\ Len(BlockEvents) = NumBlocks
    /\ EventCount("set_device") = NumBlocks
    /\ \A k \in 1..Len(BlockEvents) : BlockEvents[k].path = "checkpoint"
    /\ \E k \in 2..Len(result.events) :
          /\ result.events[k].ev = "block"
          /\ result.events[k].i = NumBlocks - 1
          /\ result.events[k - 1].ev = "set_device"
          /\ LastOp(result.events[k - 1].of) = "block"

\* The same model or stack on the other path through the loop, and the
\* events of a call apart from the path taken.
OtherPath(fn, self) ==
    IF fn = "t5_stack_forward"
    THEN [self EXCEPT !.gradient_checkpointing = ~@]
    ELSE [self EXCEPT !.encoder.gradient_checkpointing = ~@,
                      !.decoder.gradient_checkpointing = ~@]
WithoutPath(events) ==
    [k \in 1..Len(events) |->
        IF events[k].ev = "block" THEN [events[k] EXCEPT !.path = "either"]
        ELSE events[k]]
SameOnOtherPath(other) ==
    /\ other.status = result.status
    /\ WithoutPath(other.events) = WithoutPath(result.events)
    /\ Returned => other.value = result.value
    /\ Raised("IndexError") => other.exc = "IndexError"

\* C23 as stated: the call made on the other path through the loop invokes
\* the same blocks with the same arguments and has the same outcome, and on
\* either path every block is invoked with past_key_value = None, use_cache
\* = False and output_attentions = False.  A flag the caller left at None
\* reaches the blocks as None on both paths.
C23_SameArgumentsAllFalse ==
    (IsCall /\ result.status # "none") =>
       /\ SameOnOtherPath(Forward(call.fn, OtherPath(call.fn, call.self), call.args))
       /\ \A k \in 1..Len(BlockEvents) :
             /\ IsNone(BlockEvents[k].past_key_value)
             /\ BlockEvents[k].use_cache = PyFalse
             /\ BlockEvents[k].output_attentions = PyFalse

\* C23, amended: the call made on the other path through the loop invokes
\* the same blocks, in the same order, with the same hidden states, masks,
\* position biases, head masks, use_cache and output_attentions, and has
\* the same outcome; on either path every block is invoked with
\* past_key_value = None and with use_cache and output_attentions off
\* (False or None, never True); the path taken is the checkpointing one
\* exactly when the stack is training with gradient checkpointing enabled.
C23_PathsInvokeBlocksAlike ==
    (IsCall /\ result.status # "none") =>
       /\ SameOnOtherPath(Forward(call.fn, OtherPath(call.fn, call.self), call.args))
       /\ \A k \in 1..Len(BlockEvents) :
             /\ IsNone(BlockEvents[k].past_key_value)
             /\ ~Truthy(BlockEvents[k].use_cache)
             /\ ~Truthy(BlockEvents[k].output_attentions)
             /\ OnStack =>
                   (BlockEvents[k].path = "checkpoint"
                       <=> (TheStack.gradient_checkpointing /\ TheStack.training))

C23_Witness ==
    /\ call.fn = "t5_stack_forward" /\ Returned
    /\ call.self.gradient_checkpointing /\ call.self.training
    /\ call.self.is_decoder
    /\ call.args.use_cache = PyTrue
    /\ ~IsNone(call.args.head_mask)
    /\ Len(BlockEvents) = NumBlocks
    /\ \A k \in 1..Len(BlockEvents) :
          /\ BlockEvents[k].path = "checkpoint"
          /\ BlockEvents[k].use_cache = PyFalse
          /\ ~IsNone(BlockEvents[k].layer_head_mask)
    /\ \E k \in 1..Len(result.events) :
          /\ result.events[k].ev = "block"
          /\ Forward(call.fn, OtherPath(call.fn, call.self), call.args).events[k].ev = "block"
          /\ Forward(call.fn, OtherPath(call.fn, call.self), call.args).events[k].path = "direct"

\* The ValueErrors of the entry points: stage and threshold not aligned,
\* both or neither of ids and embeddings, no embedding table, no
\* hidden_states, no encoder_outputs.
ConfigurationErrors ==
    {"not_aligned", "encoder_outputs_none"} \cup FirstStageErrors \cup HiddenStateErrors

\* C24: a call that fails with a ValueError has invoked no block and
\* selected no device, and the ValueError is one of the configuration
\* errors; so a call that has invoked a block does not fail with a
\* ValueError, whatever else it fails with.
C24_ConfigurationErrorsBeforeBlocks ==
    /\ (IsCall /\ Raised("ValueError")) =>
          /\ Len(BlockEvents) = 0
          /\ EventCount("set_device") = 0
          /\ result.msg \in ConfigurationErrors
    /\ (IsCall /\ result.status = "raise" /\ Len(BlockEvents) > 0) =>
          result.exc \in {"IndexError", "TypeError", "AttributeError", "KeyError"}
    /\ (pipe.phase = "failed" /\ Raised("ValueError")) => Len(BlockEvents) = 0

C24_Witness ==
    /\ IsCall /\ Raised("ValueError")
    /\ result.msg = "decoder_hidden_states_none"
    /\ call.args.stage_index[1] < call.args.stage_index[2]
    /\ ~IsNone(call.args.encoder_outputs)
    /\ result.events = <<>>

\* C25: a call of t5_model_forward or t5_for_conditional_generation_forward
\* at a decoder stage, given the encoder_outputs and the inputs its stage
\* needs, returns; when the stage is not the last one of the pipeline the
\* decoder stack returned the bundle and the call returns that bundle with
\* encoder_outputs written into it, and when the stage is the last one the
\* stack returned the full output and the call returns a full output: the
\* router and the stack take the same stages for last ones.  The decoder
\* stack is called without the stage manager and raises at every decoder
\* stage, so neither case ever comes about.
C25_RouterAndStackAgree ==
    (OnRouter /\ HasStage
        /\ CallStage >= CallThreshold
        /\ ~IsNone(call.args.encoder_outputs)
        /\ (IF CallStage = CallThreshold
            THEN ~IsNone(call.args.decoder_input_ids)
            ELSE ~IsNone(call.args.hidden_states))
        /\ call.args.stage_index[2] <= NumBlocks) =>
       /\ Returned
       /\ IF CallStage # call.args.stage_manager.num_stages - 1
          THEN /\ result.value.tag = "dict"
               /\ DictKeys(result.value) = BundleKeys \cup {"encoder_outputs"}
          ELSE result.value.tag # "dict"

\* C26: a call of t5_stack_forward on an encoder stack, or with no
\* encoder_hidden_states, that returns the bundle returns in it the
\* encoder_decoder_position_bias it was called with, whatever blocks it ran;
\* the bias in the bundle differs from the one handed in only when a decoder
\* stack ran at least one block with encoder_hidden_states.
C26_EncoderKeepsCrossBias ==
    (OnStack /\ HasStage /\ Returned /\ result.value.tag = "dict") =>
       /\ (~TheStack.is_decoder \/ IsNone(call.args.encoder_hidden_states)) =>
             result.value.encoder_decoder_position_bias =
                call.args.encoder_decoder_position_bias
       /\ result.value.encoder_decoder_position_bias
             # call.args.encoder_decoder_position_bias =>
             /\ TheStack.is_decoder
             /\ ~IsNone(call.args.encoder_hidden_states)
             /\ Len(BlockEvents) > 0
             /\ IsNone(call.args.encoder_decoder_position_bias)

C26_Witness ==
    /\ call.fn = "t5_stack_forward" /\ HasStage /\ Returned
    /\ result.value.tag = "dict"
    /\ ~call.self.is_decoder
    /\ ~IsNone(call.args.encoder_hidden_states)
    /\ ~IsNone(call.args.encoder_decoder_position_bias)
    /\ Len(BlockEvents) = NumBlocks
    /\ result.value.encoder_decoder_position_bias =
          call.args.encoder_decoder_position_bias
    /\ result.value.position_bias # call.args.encoder_decoder_position_bias

----------------------------------------------------------------------------
(* Properties of MetaTensor *)

\* The tensors among the arguments of the intercepted call, in the order
\* they are visited, and the tensors of what func returned and of the result.
ArgTensors ==
    SelectSeq(Flatten(last.args) \o Flatten(Values(last.kwargs)), IsTensor)
OutLeaves == Flatten(last.out)
ResultLeaves == Flatten(last.result)
ResultTensors == SelectSeq(Flatten(last.result), IsTensor)
OnMeta(m) == IsMetaTensor(m) /\ m._tensor.tag = "torch.Tensor" /\ m._tensor.device = Meta
\* t is x itself when x is on meta, and else x brought to meta: the same
\* content, dtype and shape there.
RetainedFrom(t, x) ==
    IF x.device = Meta THEN t = x
    ELSE /\ t.tag = "torch.Tensor" /\ t.device = Meta
         /\ t.data = x.data /\ t.dtype = x.dtype /\ t.shape = x.shape

\* C12: after any sequence of constructions, intercepted operations and
\* conversions, the _tensor of every MetaTensor there is, is a plain tensor
\* on meta: a tensor handed to the constructor, or returned by the
\* intercepted operation, that is not on meta is moved there before it is
\* retained, and one that is on meta is retained as it is.
C12_RetainedOnMeta ==
    /\ \A n \in 1..Len(heap) : OnMeta(heap[n])
    /\ last.op = "Construct" =>
          /\ OnMeta(last.result)
          /\ ~IsMetaTensor(last.elem) =>
                RetainedFrom(last.result._tensor, last.elem)
    /\ last.op = "Dispatch" =>
          \A n \in 1..Len(OutLeaves) :
             IsTensor(OutLeaves[n]) =>
                /\ OnMeta(ResultLeaves[n])
                /\ RetainedFrom(ResultLeaves[n]._tensor, OutLeaves[n])
    /\ last.op = "to" => OnMeta(last.result)

C12_Witness ==
    /\ last.op = "Dispatch"
    /\ Len(heap) = MaxObjects
    /\ \E n \in 1..Len(OutLeaves) :
          /\ IsTensor(OutLeaves[n]) /\ OutLeaves[n].device # Meta
          /\ ResultLeaves[n] \in Range(heap)
          /\ ResultLeaves[n]._tensor.device = Meta
    /\ \E n \in 1..Len(heap) : heap[n]._tensor.data = "x"

\* C13: a newly constructed MetaTensor reports the fake_device argument when
\* one is given, else the reported device of the MetaTensor it was made
\* from, else the device of the tensor it was made from; so a MetaTensor
\* made with B from one made with A reports B, one made without a device
\* from one made with A reports A, and what it wraps is the plain tensor
\* inside, never a MetaTensor.
C13_ConstructLocation ==
    /\ last.op = "Construct" =>
          /\ last.result.device =
                IF ~IsNone(last.fake_device) THEN TorchDevice(last.fake_device)
                ELSE last.elem.device
          /\ last.result._tensor.tag = "torch.Tensor"
          /\ IsMetaTensor(last.elem) => last.result._tensor = last.elem._tensor
    /\ (last.op = "Construct" /\ last.elem \in PlainTensors) =>
          \A A \in Locations, B \in Locations :
             /\ MetaTensorNew(MetaTensorNew(last.elem, A), B).device = TorchDevice(B)
             /\ MetaTensorNew(MetaTensorNew(last.elem, A), None).device = TorchDevice(A)
             /\ MetaTensorNew(MetaTensorNew(last.elem, A), B)._tensor =
                   [last.elem EXCEPT !.device = Meta]

C13_Witness ==
    /\ last.op = "Construct"
    /\ IsMetaTensor(last.elem)
    /\ IsNone(last.fake_device)
    /\ last.elem.device = Device("cuda", 1)
    /\ last.result.device = Device("cuda", 1)
    /\ last.result._tensor.device = Meta

\* C14: when the only tensor among the arguments of an intercepted operation
\* is one MetaTensor, every tensor of the result is a MetaTensor that
\* reports the device that argument reports; so the reported device stays
\* the same along a chain of such operations.
C14_SingleInputKeepsLocation ==
    (last.op = "Dispatch" /\ Len(ArgTensors) = 1 /\ IsMetaTensor(ArgTensors[1])) =>
       \A n \in 1..Len(ResultLeaves) :
          IsTensor(OutLeaves[n]) =>
             /\ IsMetaTensor(ResultLeaves[n])
             /\ ResultLeaves[n].device = ArgTensors[1].device

C14_Witness ==
    /\ last.op = "Dispatch" /\ Len(ArgTensors) = 1 /\ IsMetaTensor(ArgTensors[1])
    /\ ArgTensors[1].device = Device("cuda", 1)
    /\ Len(ResultTensors) = 2
    /\ \A n \in 1..2 : ResultTensors[n].device = Device("cuda", 1)
    /\ ArgTensors[1]._tensor.dtype = Dtype("uint8")

\* C15: when an intercepted operation is called with a device keyword, every
\* tensor of the result reports that device, and func is called with meta
\* in the place of the device asked for.
C15_DeviceKeywordCaptured ==
    (last.op = "Dispatch" /\ HasKey(last.kwargs, "device")) =>
       /\ \A n \in 1..Len(ResultTensors) :
             ResultTensors[n].device = Lookup(last.kwargs, "device")
       /\ Lookup(last.called_kwargs, "device") = Meta

\* Two trees have the same structure: tuples of the same length at the same
\* places.
RECURSIVE SameStructure(_, _)
SameStructure(a, b) ==
    IF a.tag = "tuple"
    THEN /\ b.tag = "tuple"
         /\ Len(b.items) = Len(a.items)
         /\ \A n \in 1..Len(a.items) : SameStructure(a.items[n], b.items[n])
    ELSE b.tag # "tuple"

\* C16: what an intercepted call returns has the structure of what func
\* returned; in the place of every tensor is a MetaTensor that wraps it and
\* reports the fake_device captured for this call, the same for all the
\* tensors of one result; whatever is no tensor is handed back unchanged.
C16_ResultTreeWrapped ==
    last.op = "Dispatch" =>
       /\ SameStructure(last.out, last.result)
       /\ \A n \in 1..Len(OutLeaves) :
             IF IsTensor(OutLeaves[n])
             THEN /\ IsMetaTensor(ResultLeaves[n])
                  /\ RetainedFrom(ResultLeaves[n]._tensor, OutLeaves[n])
                  /\ ResultLeaves[n].dtype = OutLeaves[n].dtype
                  /\ ~IsNone(last.fake_device) =>
                        ResultLeaves[n].device = TorchDevice(last.fake_device)
                  /\ ResultLeaves[n].device = ResultTensors[1].device
             ELSE ResultLeaves[n] = OutLeaves[n]

C16_Witness ==
    /\ last.op = "Dispatch"
    /\ last.out.tag = "tuple" /\ Len(last.out.items) = 2
    /\ last.out.items[2].tag = "tuple"
    /\ last.result.items[2].items[1] = PyInt(3)
    /\ IsMetaTensor(last.result.items[1])
    /\ IsMetaTensor(last.result.items[2].items[2])
    /\ last.result.items[1].device = Device("cuda", 0)
    /\ last.result.items[2].items[2].device = Device("cuda", 0)

\* C17: when the tensors among the arguments of an intercepted operation
\* carry different devices, the result reports the device of the tensor
\* visited last (positional arguments in order, then keyword arguments): the
\* reported device for a MetaTensor, its own device for a plain tensor.
C17_LastTensorWins ==
    (last.op = "Dispatch" /\ Len(ArgTensors) >= 1) =>
       \A n \in 1..Len(ResultTensors) :
          ResultTensors[n].device = ArgTensors[Len(ArgTensors)].device

C17_Witness ==
    /\ last.op = "Dispatch"
    /\ Len(ArgTensors) = 2
    /\ IsMetaTensor(ArgTensors[1]) /\ ~IsMetaTensor(ArgTensors[2])
    /\ ArgTensors[1].device = Device("cuda", 0)
    /\ ArgTensors[2].device = Device("cpu", -1)
    /\ HasKey(last.kwargs, "other")
    /\ Len(ResultTensors) = 1
    /\ ResultTensors[1].device = Device("cpu", -1)

\* C18: x.to(target) and x.to(target, dtype) with a device as target, given
\* by name or as a torch.device, return a MetaTensor that reports the target
\* and has the dtype asked for, or the dtype of x when none is asked for; it
\* holds the content of x on meta; a name and the device it names give the
\* same result.
C18_ToLocation ==
    /\ (last.op = "to" /\ last.target.tag \in {"str", "device"}) =>
          /\ OnMeta(last.result)
          /\ last.result.device = TorchDevice(last.target)
          /\ last.result.dtype =
                IF ~IsNone(last.dtype) THEN last.dtype ELSE last.self.dtype
          /\ last.result._tensor.dtype = last.result.dtype
          /\ last.result._tensor.data = last.self._tensor.data
          /\ last.result \in Range(heap)
    /\ last.op = "to" =>
          \A dtype \in {None} \cup Dtypes :
             /\ To(last.self, Str("cuda:1"), dtype) = To(last.self, Device("cuda", 1), dtype)
             /\ To(last.self, Str("cpu"), dtype) = To(last.self, Device("cpu", -1), dtype)

C18_Witness ==
    /\ last.op = "to" /\ last.target = Str("cuda:1")
    /\ last.dtype = Dtype("uint8")
    /\ last.self.dtype = Dtype("float32")
    /\ last.self.device = Device("cuda", 0)
    /\ last.result.device = Device("cuda", 1)
    /\ last.result.dtype = Dtype("uint8")

\* C19: x.to(dtype) with a dtype alone returns a MetaTensor of that dtype
\* that reports the device x reports.
C19_ToDtypeKeepsLocation ==
    (last.op = "to" /\ last.target.tag = "dtype") =>
       /\ OnMeta(last.result)
       /\ last.result.dtype = last.target
       /\ last.result._tensor.dtype = last.target
       /\ last.result.device = last.self.device
       /\ last.result._tensor.data = last.self._tensor.data

C19_Witness ==
    /\ last.op = "to" /\ last.target = Dtype("uint8")
    /\ last.self.dtype = Dtype("float32")
    /\ last.self.device = Device("cuda", 1)
    /\ last.result.device = Device("cuda", 1)
    /\ last.result.dtype = Dtype("uint8")
    /\ last.result \in Range(heap)

\* What func returns when it is called directly on the unwrapped arguments
\* of the intercepted call.
DirectLeaves ==
    Flatten(Func(last.func, UnwrapTree(last.args), UnwrapKwargs(MetaKwargs(last.kwargs))))
SameGeometry(a, b) == a.shape = b.shape /\ a.dtype = b.dtype /\ a.stride = b.stride

C27_ToLocationCopies ==
    (last.op = "to" /\ last.target.tag \in {"str", "device"}) =>
       /\ last.objects.wrapper \notin {SelfObject.wrapper, SelfObject._tensor}
       /\ last.objects._tensor \notin {SelfObject.wrapper, SelfObject._tensor}
       /\ last.result.device = TorchDevice(last.target)
       /\ OnMeta(last.self)
       /\ IsNone(last.dtype) =>
             /\ last.result._tensor = last.self._tensor
             /\ last.result.dtype = last.self.dtype
       /\ (TorchDevice(last.target) # last.self.device) => last.result # last.self

C27_Witness ==
    /\ last.op = "to" /\ last.target = Device("cuda", 0)
    /\ IsNone(last.dtype)
    /\ last.self.device = Device("cpu", -1)
    /\ last.result.device = Device("cuda", 0)
    /\ last.result._tensor = last.self._tensor
    /\ last.objects._tensor = "deepcopy(x._tensor)"
    /\ last.self \in Range(heap)

----------------------------------------------------------------------------
(* Properties of calls of __torch_dispatch__ in progress together *)

\* C21: a call of __torch_dispatch__ that returns, whatever calls were made
\* from within its operation or were in progress beside it, returns what it
\* returns when it runs alone: every tensor of its result reports the
\* fake_device the call's own keyword and arguments give.
C21_DispatchReentrant ==
    last.op = "DispatchReturn" =>
       /\ last.call = TorchDispatch(last.call.func, last.call.args, last.call.kwargs)
       /\ last.call.fake_device = CapturedDevice(last.call.args, last.call.kwargs)
       /\ \A n \in 1..Len(Flatten(last.call.result)) :
             IsMetaTensor(Flatten(last.call.result)[n]) =>
                Flatten(last.call.result)[n].device =
                   IF IsNone(last.call.fake_device) THEN Meta
                   ELSE TorchDevice(last.call.fake_device)

C21_Witness ==
    /\ last.op = "DispatchReturn"
    /\ last.parent = 0
    /\ Len(last.nested) >= 1
    /\ ~IsNone(last.call.fake_device)
    /\ last.nested[1] # last.call.fake_device
    /\ \E k \in Slots : frames[k].pc \notin {"idle", "capture"}
    /\ IsMetaTensor(last.call.result)
    /\ last.call.result.device = TorchDevice(last.call.fake_device)

====
